---- MODULE Spec2Model ----
(***************************************************************************)
(* Model of the PowerDistributingActor of frequenz-sdk                     *)
(* (src/frequenz/sdk/actor/power_distributing/power_distributing.py).      *)
(*                                                                         *)
(* Powers are integer watts.  One action is one run of the main coroutine  *)
(* between two suspension points (an await that yields to the event loop), *)
(* or one step of a task the event loop runs beside it.                    *)
(***************************************************************************)
EXTENDS Integers, Sequences, FiniteSets, TLC

\* ------------------------------------------------------------------ bounds

\* Number of requests the request channel delivers in one behaviour.
MaxRequests == 2

\* Number of devices whose latest sample is missing or NaN when a request
\* is processed.
MaxBadDevices == 1

\* The wall clock of a resampler of one source stops at MaxTime seconds.
MaxTime == 6

\* The wall clock of a resampler of two sources stops at MaxTimeOfTwo seconds.
MaxTimeOfTwo == 3

\* A source alone delivers at most MaxSamples samples.
MaxSamples == 4

\* Two sources deliver at most MaxSamplesOfTwo samples in all.
MaxSamplesOfTwo == 2

\* The time the upsampling scenario is followed for, in seconds.
MaxTimeOfUpsampling == 22

\* The samples a source delivers after the buffer was resized.
MaxSamplesResized == 4

\* ------------------------------------------------------- the component graph

\* Batteries of the component graph; battery 4 has no inverter.
GraphBatteries == {1, 2, 3, 4}

\* Edges inverter -> battery of the component graph: inverter 11 feeds
\* battery 1, inverter 12 feeds the batteries 2 and 3.
GraphEdges == {<<11, 1>>, <<12, 2>>, <<12, 3>>}

\* component_graph.predecessors(battery_id), inverters only.
Predecessors(battery_id) == {e[1] : e \in {x \in GraphEdges : x[2] = battery_id}}

\* component_graph.successors(inverter).
Successors(inverter) == {e[2] : e \in {x \in GraphEdges : x[1] = inverter}}

\* maps["bat_invs"]: batteries without an inverter are skipped.
bat_invs_map ==
    [b \in {x \in GraphBatteries : Predecessors(x) # {}} |-> Predecessors(b)]

\* maps["inv_bats"].
inv_bats_map ==
    [i \in UNION {bat_invs_map[b] : b \in DOMAIN bat_invs_map} |->
        {b \in DOMAIN bat_invs_map : i \in bat_invs_map[b]}]

\* maps["bat_bats"]: the successors of every inverter of the battery.
bat_bats_map ==
    [b \in DOMAIN bat_invs_map |-> UNION {Successors(i) : i \in bat_invs_map[b]}]

\* Keys of _battery_receivers and _inverter_receivers after _create_channels.
battery_receivers == DOMAIN bat_invs_map
inverter_receivers == UNION {bat_invs_map[b] : b \in DOMAIN bat_invs_map}

\* _get_all_from_map(source, keys), for keys that are all in the map.
get_all_from_map(source, keys) == UNION {source[k] : k \in keys}

\* ------------------------------------------------- any component graph

\* The batteries and the inverters a component graph is drawn from.
Batteries == {1, 2, 3}
Inverters == {11, 12}

\* The component graphs: any set of edges inverter -> battery, so a battery
\* can have no inverter, one or several, and an inverter any batteries.
ComponentGraphs == SUBSET (Inverters \X Batteries)

\* The orders component_graph.components(BATTERY) can list the batteries in.
BatteryOrders ==
    {o \in [1..Cardinality(Batteries) -> Batteries] :
        \A i, j \in DOMAIN o : i # j => o[i] # o[j]}

\* component_graph.predecessors(battery_id), inverters only.
predecessors(graph, battery_id) == {e[1] : e \in {x \in graph : x[2] = battery_id}}

\* component_graph.successors(inverter).
successors(graph, inverter) == {e[2] : e \in {x \in graph : x[1] = inverter}}

\* dict.setdefault(key, set()): the set the dict holds for the key.
setdefault(dict, key) == IF key \in DOMAIN dict THEN dict[key] ELSE {}

\* The four dicts before the loop of _get_battery_inverter_mappings.
EmptyMaps == [bat_invs |-> <<>>, inv_bats |-> <<>>, bat_bats |-> <<>>, inv_invs |-> <<>>]

\* One pass of the loop `for battery_id in batteries`.  The update of
\* inv_invs_map is set.update(bat_invs_map): it adds the keys the dict
\* bat_invs_map has at that moment.
mappings_step(graph, m, battery_id) ==
    LET inverters == predecessors(graph, battery_id)
        bat_invs == [b \in DOMAIN m.bat_invs \cup {battery_id} |->
                        IF b = battery_id THEN inverters ELSE m.bat_invs[b]]
    IN  IF Cardinality(inverters) = 0
        THEN m
        ELSE [bat_invs |-> bat_invs,
              bat_bats |->
                [b \in DOMAIN m.bat_bats \cup {battery_id} |->
                    IF b = battery_id
                    THEN setdefault(m.bat_bats, b)
                            \cup UNION {successors(graph, i) : i \in inverters}
                    ELSE m.bat_bats[b]],
              inv_bats |->
                [i \in DOMAIN m.inv_bats \cup inverters |->
                    IF i \in inverters
                    THEN setdefault(m.inv_bats, i) \cup {battery_id}
                    ELSE m.inv_bats[i]],
              inv_invs |->
                [i \in DOMAIN m.inv_invs \cup inverters |->
                    IF i \in inverters
                    THEN setdefault(m.inv_invs, i) \cup DOMAIN bat_invs
                    ELSE m.inv_invs[i]]]

RECURSIVE mappings_after(_, _, _)
\* The four dicts after the first n batteries of the loop.
mappings_after(graph, batteries, n) ==
    IF n = 0 THEN EmptyMaps
    ELSE mappings_step(graph, mappings_after(graph, batteries, n - 1), batteries[n])

\* _get_battery_inverter_mappings(batteries) on the given component graph.
get_battery_inverter_mappings(graph, batteries) ==
    mappings_after(graph, batteries, Len(batteries))

\* ------------------------------------------------------------- arithmetic

RECURSIVE SumOver(_, _)
\* sum(f[x] for x in S)
SumOver(f, S) ==
    IF S = {} THEN 0
    ELSE LET x == CHOOSE y \in S : TRUE IN f[x] + SumOver(f, S \ {x})

Min2(a, b) == IF a <= b THEN a ELSE b
Max2(a, b) == IF a >= b THEN a ELSE b

\* ------------------------------------------------------------- telemetry

PowerBounds(il, el, eu, iu) ==
    [inclusion_lower |-> il, exclusion_lower |-> el,
     exclusion_upper |-> eu, inclusion_upper |-> iu]

ZeroBounds == PowerBounds(0, 0, 0, 0)

\* Peekable.peek() of a channel nothing was sent on yet.
NoData == [present |-> FALSE, nan |-> FALSE, power_bounds |-> ZeroBounds]

\* What peek() can return for a battery: nothing, a sample with NaN in a
\* crucial metric, or a sample with all crucial metrics set.
BatterySamples ==
    {NoData,
     [present |-> TRUE, nan |-> TRUE, power_bounds |-> ZeroBounds],
     [present |-> TRUE, nan |-> FALSE,
      power_bounds |-> PowerBounds(-1000, -50, 50, 1000)]}

\* What peek() can return for an inverter.
InverterSamples ==
    {NoData,
     [present |-> TRUE, nan |-> TRUE, power_bounds |-> ZeroBounds],
     [present |-> TRUE, nan |-> FALSE,
      power_bounds |-> PowerBounds(-1200, -40, 40, 1200)]}

\* A sample with all crucial metrics set.
Usable(sample) == sample.present /\ ~sample.nan

\* The latest samples of the given devices at one moment, with at most
\* MaxBadDevices devices that sent nothing yet or sent NaN.
Caches(devices) ==
    {c \in [devices -> BatterySamples \cup InverterSamples] :
        /\ \A b \in devices \cap battery_receivers : c[b] \in BatterySamples
        /\ \A i \in devices \cap inverter_receivers : c[i] \in InverterSamples
        /\ Cardinality({d \in devices : ~Usable(c[d])}) <= MaxBadDevices}

\* AggregatedBatteryData(battery_data): componentwise sum of the bounds.
AggregatedBatteryData(battery_ids, peek) ==
    [component_ids |-> battery_ids,
     power_bounds |->
        PowerBounds(
            SumOver([b \in battery_ids |-> peek[b].power_bounds.inclusion_lower], battery_ids),
            SumOver([b \in battery_ids |-> peek[b].power_bounds.exclusion_lower], battery_ids),
            SumOver([b \in battery_ids |-> peek[b].power_bounds.exclusion_upper], battery_ids),
            SumOver([b \in battery_ids |-> peek[b].power_bounds.inclusion_upper], battery_ids))]

\* The value standing for "no pair": _get_battery_inverter_data returned None.
NoPair ==
    [ok |-> FALSE,
     battery |-> [component_ids |-> {}, power_bounds |-> ZeroBounds],
     inverter_ids |-> {},
     inverter |-> [i \in {} |-> ZeroBounds]]

\* _get_battery_inverter_data without the test of the inverters' metrics.
get_battery_inverter_data_nan_inverters_kept(battery_ids, inverter_ids, peek) ==
    IF \/ \E b \in battery_ids : ~peek[b].present
       \/ \E i \in inverter_ids : ~peek[i].present
    THEN NoPair
    ELSE IF \E b \in battery_ids : peek[b].nan
    THEN NoPair
    ELSE [ok |-> TRUE,
          battery |-> AggregatedBatteryData(battery_ids, peek),
          inverter_ids |-> inverter_ids,
          inverter |-> [i \in inverter_ids |-> peek[i].power_bounds]]

\* _get_battery_inverter_data(battery_ids, inverter_ids)
get_battery_inverter_data(battery_ids, inverter_ids, peek) ==
    IF \/ \E b \in battery_ids : ~peek[b].present
       \/ \E i \in inverter_ids : ~peek[i].present
    THEN NoPair
    ELSE IF \E b \in battery_ids : peek[b].nan
    THEN NoPair
    ELSE IF \E i \in inverter_ids : peek[i].nan
    THEN NoPair
    ELSE [ok |-> TRUE,
          battery |-> AggregatedBatteryData(battery_ids, peek),
          inverter_ids |-> inverter_ids,
          inverter |-> [i \in inverter_ids |-> peek[i].power_bounds]]

\* ------------------------------------------------------ requests and results

\* The request type; id numbers the requests in the order they are sent.
NoRequest == [id |-> 0, batteries |-> {}, power |-> 0, adjust_power |-> FALSE]

\* Battery sets of the requests that can be dispatched: all batteries that
\* have an inverter (battery 1 alone, batteries 2 and 3 behind one inverter).
RequestBatteries == {{1, 2, 3}}

\* Battery sets of the requests the actor answers with an Error: the empty
\* set, battery 2 without battery 3 of the same inverter, and a set with
\* battery 4, which has no inverter.
WrongBatteries == {{}, {2}, {1, 4}}

\* Powers a request can ask for (watts): zero, a power inside the
\* exclusion bounds of every snapshot, and a power every snapshot allows.
RequestPowers == {0, 30, 300}

\* The requests a user can send, without the id.
Requests ==
    [batteries : RequestBatteries, power : RequestPowers, adjust_power : {FALSE}]
    \cup [batteries : RequestBatteries, power : {0}, adjust_power : {TRUE}]
    \cup [batteries : WrongBatteries, power : {300}, adjust_power : {FALSE}]

MakeResult(type, request, sp, sb, fp, fb, ep, bounds, msg) ==
    [type |-> type, request |-> request,
     succeeded_power |-> sp, succeeded_batteries |-> sb,
     failed_power |-> fp, failed_batteries |-> fb,
     excess_power |-> ep, bounds |-> bounds, msg |-> msg]

\* result.Error(request, msg)
Error(request, msg) ==
    MakeResult("Error", request, 0, {}, 0, {}, 0, ZeroBounds, msg)

\* result.OutOfBounds(request, bounds)
OutOfBounds(request, bounds) ==
    MakeResult("OutOfBounds", request, 0, {}, 0, {}, 0, bounds, "")

\* result.Success(request, succeeded_power, succeeded_batteries, excess_power)
Success(request, sp, sb, ep) ==
    MakeResult("Success", request, sp, sb, 0, {}, ep, ZeroBounds, "")

\* result.PartialFailure(...)
PartialFailure(request, sp, sb, fp, fb, ep) ==
    MakeResult("PartialFailure", request, sp, sb, fp, fb, ep, ZeroBounds, "")

\* The value of _check_request when the request is accepted (None).
NoResult == MakeResult("None", NoRequest, 0, {}, 0, {}, 0, ZeroBounds, "")

\* The requests of the specification with fairness.
LiveRequests ==
    [batteries : RequestBatteries, power : {30, 300}, adjust_power : {FALSE}]
    \cup [batteries : {{1, 4}}, power : {300}, adjust_power : {FALSE}]

\* Powers at, next to and between the bounds the snapshots of the model have.
CheckPowers ==
    {-2201, -2200, -1001, -1000, -150, -51, -50, -49, 0,
     30, 49, 50, 51, 150, 1000, 1001, 2200, 2201}

\* The requests _check_request is applied to on its own.
CheckRequests ==
    [id : {1}, batteries : RequestBatteries, power : CheckPowers,
     adjust_power : BOOLEAN]

\* ------------------------------------------------------- the pure functions

\* _get_bounds(pairs_data)
get_bounds(pairs_data) ==
    PowerBounds(
        SumOver([p \in pairs_data |->
                    Max2(p.battery.power_bounds.inclusion_lower,
                         SumOver([i \in p.inverter_ids |-> p.inverter[i].inclusion_lower],
                                 p.inverter_ids))],
                pairs_data),
        Min2(SumOver([p \in pairs_data |-> p.battery.power_bounds.exclusion_lower],
                     pairs_data),
             SumOver([p \in pairs_data |->
                        SumOver([i \in p.inverter_ids |-> p.inverter[i].exclusion_lower],
                                p.inverter_ids)],
                     pairs_data)),
        Max2(SumOver([p \in pairs_data |-> p.battery.power_bounds.exclusion_upper],
                     pairs_data),
             SumOver([p \in pairs_data |->
                        SumOver([i \in p.inverter_ids |-> p.inverter[i].exclusion_upper],
                                p.inverter_ids)],
                     pairs_data)),
        SumOver([p \in pairs_data |->
                    Min2(p.battery.power_bounds.inclusion_upper,
                         SumOver([i \in p.inverter_ids |-> p.inverter[i].inclusion_upper],
                                 p.inverter_ids))],
                pairs_data))

\* is_close_to_zero(power), on integer watts.
is_close_to_zero(power) == power = 0

\* _check_request without the early return for a power of zero.
check_request_zero_checked(request, pairs_data) ==
    LET bounds == get_bounds(pairs_data)
        power == request.power
        in_lower_range ==
            bounds.inclusion_lower <= power /\ power <= bounds.exclusion_lower
        in_upper_range ==
            bounds.exclusion_upper <= power /\ power <= bounds.inclusion_upper
    IN  IF request.batteries = {}
        THEN Error(request, "Empty battery IDs in the request")
        ELSE IF \E battery \in request.batteries : battery \notin battery_receivers
        THEN Error(request, "No battery")
        ELSE IF request.adjust_power
        THEN IF bounds.exclusion_lower < power /\ power < bounds.exclusion_upper
             THEN OutOfBounds(request, bounds)
             ELSE NoResult
        ELSE IF ~(in_lower_range \/ in_upper_range)
             THEN OutOfBounds(request, bounds)
             ELSE NoResult

\* _check_request with the exclusion bounds themselves out of the ranges.
check_request_open_ranges(request, pairs_data) ==
    LET bounds == get_bounds(pairs_data)
        power == request.power
        in_lower_range ==
            bounds.inclusion_lower <= power /\ power < bounds.exclusion_lower
        in_upper_range ==
            bounds.exclusion_upper < power /\ power <= bounds.inclusion_upper
    IN  IF request.batteries = {}
        THEN Error(request, "Empty battery IDs in the request")
        ELSE IF \E battery \in request.batteries : battery \notin battery_receivers
        THEN Error(request, "No battery")
        ELSE IF is_close_to_zero(power)
        THEN NoResult
        ELSE IF request.adjust_power
        THEN IF bounds.exclusion_lower < power /\ power < bounds.exclusion_upper
             THEN OutOfBounds(request, bounds)
             ELSE NoResult
        ELSE IF ~(in_lower_range \/ in_upper_range)
             THEN OutOfBounds(request, bounds)
             ELSE NoResult

\* _check_request with the exclusion bounds themselves inside the deadband.
check_request_closed_deadband(request, pairs_data) ==
    LET bounds == get_bounds(pairs_data)
        power == request.power
        in_lower_range ==
            bounds.inclusion_lower <= power /\ power <= bounds.exclusion_lower
        in_upper_range ==
            bounds.exclusion_upper <= power /\ power <= bounds.inclusion_upper
    IN  IF request.batteries = {}
        THEN Error(request, "Empty battery IDs in the request")
        ELSE IF \E battery \in request.batteries : battery \notin battery_receivers
        THEN Error(request, "No battery")
        ELSE IF is_close_to_zero(power)
        THEN NoResult
        ELSE IF request.adjust_power
        THEN IF bounds.exclusion_lower <= power /\ power <= bounds.exclusion_upper
             THEN OutOfBounds(request, bounds)
             ELSE NoResult
        ELSE IF ~(in_lower_range \/ in_upper_range)
             THEN OutOfBounds(request, bounds)
             ELSE NoResult

\* _check_request(request, pairs_data): the Result to answer with, or NoResult.
check_request(request, pairs_data) ==
    LET bounds == get_bounds(pairs_data)
        power == request.power
        in_lower_range ==
            bounds.inclusion_lower <= power /\ power <= bounds.exclusion_lower
        in_upper_range ==
            bounds.exclusion_upper <= power /\ power <= bounds.inclusion_upper
    IN  IF request.batteries = {}
        THEN Error(request, "Empty battery IDs in the request")
        ELSE IF \E battery \in request.batteries : battery \notin battery_receivers
        THEN Error(request, "No battery")
        ELSE IF is_close_to_zero(power)
        THEN NoResult
        ELSE IF request.adjust_power
        THEN IF bounds.exclusion_lower < power /\ power < bounds.exclusion_upper
             THEN OutOfBounds(request, bounds)
             ELSE NoResult
        ELSE IF ~(in_lower_range \/ in_upper_range)
             THEN OutOfBounds(request, bounds)
             ELSE NoResult

\* _get_components_data that lets inverters reach batteries that were not
\* requested.
raises_key_error_extra_batteries_allowed(batteries, working_batteries) ==
    \/ \E battery_id \in working_batteries : battery_id \notin battery_receivers
    \/ \E battery_id \in batteries : battery_id \notin DOMAIN bat_invs_map

\* Whether _get_components_data raises KeyError: a working battery without
\* a receiver, a requested battery missing in the battery to inverters map,
\* or inverters connected to batteries that were not requested.
raises_key_error(batteries, working_batteries) ==
    \/ \E battery_id \in working_batteries : battery_id \notin battery_receivers
    \/ \E battery_id \in batteries : battery_id \notin DOMAIN bat_invs_map
    \/ get_all_from_map(inv_bats_map, get_all_from_map(bat_invs_map, batteries))
            # batteries

\* The value of _get_components_data when it raises KeyError.
KeyError == [raised |-> TRUE, pairs_data |-> {}]

\* _get_components_data(batteries).  working_batteries is the answer of
\* the status tracker, peek the latest samples, and first[s] the member
\* next(iter(s)) gives for a battery set s.
get_components_data(batteries, working_batteries, peek, first) ==
    IF raises_key_error(batteries, working_batteries)
    THEN KeyError
    ELSE LET battery_sets == {bat_bats_map[wb] : wb \in working_batteries}
         IN  [raised |-> FALSE,
              pairs_data |->
                {get_battery_inverter_data(s, bat_invs_map[first[s]], peek) :
                    s \in battery_sets} \ {NoPair}]

\* The devices _get_components_data peeks at: none when it raises, else the
\* batteries sharing an inverter with a working battery, and their inverters.
PeekedDevices(batteries, working_batteries) ==
    IF raises_key_error(batteries, working_batteries)
    THEN {}
    ELSE LET bats == get_all_from_map(bat_bats_map, working_batteries)
         IN  bats \cup get_all_from_map(bat_invs_map, bats)

\* The choices next(iter(battery_ids)) has for every battery set of the map.
FirstChoices ==
    LET sets == {bat_bats_map[b] : b \in DOMAIN bat_bats_map}
    IN  {f \in [sets -> GraphBatteries] : \A s \in sets : f[s] \in s}

\* The inverters of a snapshot.
PairInverters(pairs_data) == UNION {p.inverter_ids : p \in pairs_data}

RECURSIVE Split(_, _)
\* The power split over the inverters, in the order of their ids: every
\* inverter but the last gets power \div (n + 1) of what is left for n
\* inverters, the last one the rest (300 W over two inverters: 100 and 200).
Split(power, invs) ==
    IF invs = {} THEN <<>>
    ELSE LET i == CHOOSE x \in invs : \A y \in invs : x <= y
             mine == IF invs = {i} THEN power
                     ELSE power \div (Cardinality(invs) + 1)
         IN  [j \in invs |->
                IF j = i THEN mine ELSE Split(power - mine, invs \ {i})[j]]

\* DistributionAlgorithm.distribute_power(power, pairs): either the whole
\* power is split over the inverters of the pairs and nothing remains, or
\* every inverter gets nothing and the whole power remains.
distribute_power(power, pairs_data) ==
    LET invs == PairInverters(pairs_data)
    IN  {[raised |-> FALSE, distribution |-> d,
          remaining_power |-> power - SumOver(d, invs)] :
            d \in {Split(power, invs), [i \in invs |-> 0]}}

\* distribute_power raising ValueError.  Whether the input is valid is
\* decided by metrics not modelled here (soc, capacity), so any call may raise.
ValueError == [raised |-> TRUE, distribution |-> <<>>, remaining_power |-> 0]

\* ------------------------------------------------------------------ state

VARIABLES
    requests_queue, \* requests sent on the request channel, not yet received
    nreq,           \* number of requests sent so far
    pc,             \* where _run is suspended
    cur,            \* the locals of _run for the request being processed
    tasks,          \* the set_power tasks the event loop holds
    background,     \* the tasks of asyncio.gather that have not finished
    status_calls,   \* the update_status calls that ran, in order
    results         \* the results the result channel accepted, in order

\* The state of a Resampler, of its sources and of its sinks.
VARIABLES
    config,         \* the ResamplerConfig of the resampler
    rnow,           \* the wall clock, datetime.now()
    window_end,     \* Resampler._window_end
    rpc,            \* where Resampler.resample is: "idle", "sleep" or "gather"
    resamplers,     \* Resampler._resamplers, the helpers in insertion order
    gathered,       \* the helper.resample calls of the tick being gathered
    raised,         \* the exception the last call of resample ended with
    sent,           \* for every source, the number of calls of its sink and the last one
    ticks,          \* the number of ticks resample completed
    added,          \* the sources add_timeseries was called with
    nsamples,       \* the number of samples the sources delivered
    returned,       \* the last call of add_timeseries or remove_timeseries seen, and its value
    removed         \* the helpers remove_timeseries deleted from Resampler._resamplers

\* The component graph the actor was constructed on and what it keeps of it.
VARIABLES
    component_graph, \* the edges inverter -> battery of the component graph
    maps,            \* the maps __init__ got from _get_battery_inverter_mappings
    peeked,          \* the latest samples _get_components_data peeked at
    first_of         \* what next(iter(battery_ids)) gave for every battery set

gvars == <<component_graph, maps, peeked, first_of>>

rvars == <<config, rnow, window_end, rpc, resamplers, gathered, raised, sent,
           ticks, added, nsamples, returned, removed>>

vars == <<requests_queue, nreq, pc, cur, tasks, background, status_calls, results,
          rvars, gvars>>

\* The value of peeked and first_of while _get_components_data has not run.
NotPeeked == <<>>

\* The actor after __init__ on the given component graph, whose batteries
\* the graph lists in the given order, and after _create_channels.
ConstructedOn(graph, batteries) ==
    /\ component_graph = graph
    /\ maps = get_battery_inverter_mappings(graph, batteries)
    /\ peeked = NotPeeked
    /\ first_of = NotPeeked

\* ------------------------------------------------- resampler: the data

\* The sources of timeseries.
Sources == {"a", "b"}

\* A ResamplerConfig.
ResamplerConfig(period, age, initial, max) ==
    [resampling_period_s |-> period, max_data_age_in_periods |-> age,
     initial_buffer_len |-> initial, max_buffer_len |-> max]

\* The configurations of the resampler: a resampling period of 2 seconds,
\* samples relevant for one or two periods, a buffer of 2 samples that
\* grows to 4 at most.
Configs == {ResamplerConfig(2, 1, 2, 4), ResamplerConfig(2, 2, 2, 4)}

\* The configuration of a resampler of two sources.
ConfigsOfTwo == {ResamplerConfig(1, 1, 2, 4)}

\* Sample(timestamp, value): kind is "value" for a float, "None" or "NaN";
\* the float is num / den.
Sample(timestamp, kind, num, den) ==
    [timestamp |-> timestamp, kind |-> kind, num |-> num, den |-> den]

\* The values a source delivers.
SourceValues ==
    {[kind |-> "value", num |-> 1], [kind |-> "value", num |-> 3],
     [kind |-> "None", num |-> 0], [kind |-> "NaN", num |-> 0]}

\* The values the sources of a resampler of two sources deliver.
SourceValuesOfTwo == {[kind |-> "value", num |-> 1], [kind |-> "NaN", num |-> 0]}

\* The exceptions a source raises.
SourceExceptions == {"ConnectionError"}

\* sampling_period_s = None, and a period of num / den seconds.
NoPeriod == [num |-> 0, den |-> 0]

\* The sinks of timeseries.
Sinks == {"first", "second"}

\* _StreamingHelper(_ResamplingHelper(name, config), source, sink): an empty
\* buffer, SourceProperties(), and the receiving task running.
StreamingHelper(source, sink, cfg) ==
    [source |-> source,
     sink |-> sink,
     buffer |-> <<>>,
     maxlen |-> cfg.initial_buffer_len,
     sampling_start |-> -1,
     received_samples |-> 0,
     sampling_period_s |-> NoPeriod,
     receiving_task |-> "running"]

\* A sink that was not called.
NoSinkCall == [n |-> 0, sample |-> Sample(-1, "None", 0, 1)]

\* Neither add_timeseries nor remove_timeseries was seen returning.
NoCall == [call |-> "None", source |-> "None", sink |-> "None", value |-> FALSE]

\* No exception.
NoError == [type |-> "None", exceptions |-> {}]

\* A Resampler(cfg) just constructed at time 0, resample not called.
NewResampler(cfg) ==
    /\ config = cfg
    /\ rnow = 0
    /\ window_end = 0 + cfg.resampling_period_s
    /\ rpc = "idle"
    /\ resamplers = <<>>
    /\ gathered = <<>>
    /\ raised = NoError
    /\ sent = [s \in Sources |-> NoSinkCall]
    /\ ticks = 0
    /\ added = {}
    /\ nsamples = 0
    /\ returned = NoCall
    /\ removed = {}

\* The resampler while the power distributor is looked at.
NoResampling == NewResampler(ResamplerConfig(2, 2, 2, 4))

\* The locals of _run between two requests.
Idle ==
    [request |-> NoRequest, working_batteries |-> {}, pairs_data |-> {},
     distribution |-> <<>>, remaining_power |-> 0, response |-> NoResult]

Init ==
    /\ requests_queue = <<>>
    /\ nreq = 0
    /\ pc = "receive"
    /\ cur = Idle
    /\ tasks = {}
    /\ background = {}
    /\ status_calls = <<>>
    /\ results = <<>>
    /\ ConstructedOn(GraphEdges, <<1, 2, 3, 4>>)
    /\ NoResampling

\* ---------------------------------------------------------------- dispatch

\* asyncio.create_task(api.set_power(inverter_id, power)) for every inverter.
create_tasks(request, distribution) ==
    {[req |-> request.id, inverter_id |-> i, state |-> "running"] :
        i \in DOMAIN distribution}

\* The tasks of the request being processed.
CurTasks == {t \in tasks : t.req = cur.request.id}

Finished(t) == t.state \in {"ok", "out_of_range", "rpc_error", "cancelled"}

\* _parse_result that takes an AioRpcError with code OUT_OF_RANGE for a
\* refusal that is no failure.
parse_result_out_of_range_ok(request_tasks, distribution) ==
    LET failed == {t.inverter_id :
                    t \in {x \in request_tasks :
                            x.state \in {"rpc_error", "cancelled"}}}
    IN  [failed_power |-> SumOver(distribution, failed),
         failed_batteries |-> get_all_from_map(inv_bats_map, failed)]

\* _parse_result that takes a call cancelled at the timeout for a call
\* that returned.
parse_result_cancelled_ok(request_tasks, distribution) ==
    LET failed == {t.inverter_id :
                    t \in {x \in request_tasks :
                            x.state \in {"out_of_range", "rpc_error"}}}
    IN  [failed_power |-> SumOver(distribution, failed),
         failed_batteries |-> get_all_from_map(inv_bats_map, failed)]

\* _parse_result(tasks, distribution, timeout) on finished tasks:
\* AioRpcError and CancelledError count as failed.
parse_result(request_tasks, distribution) ==
    LET failed == {t.inverter_id :
                    t \in {x \in request_tasks :
                            x.state \in {"out_of_range", "rpc_error", "cancelled"}}}
    IN  [failed_power |-> SumOver(distribution, failed),
         failed_batteries |-> get_all_from_map(inv_bats_map, failed)]

\* The response with the failed power left in succeeded_power.
build_response_failed_not_subtracted(request, distribution, remaining_power, failed_power, failed_batteries) ==
    LET distributed_power_value == request.power - remaining_power
        battery_distribution_keys ==
            get_all_from_map(inv_bats_map, DOMAIN distribution)
    IN  IF Cardinality(failed_batteries) > 0
        THEN PartialFailure(request,
                            distributed_power_value,
                            battery_distribution_keys \ failed_batteries,
                            failed_power, failed_batteries, remaining_power)
        ELSE Success(request, distributed_power_value,
                     battery_distribution_keys, remaining_power)

\* The response chosen by the failed power instead of the failed batteries.
build_response_by_failed_power(request, distribution, remaining_power, failed_power, failed_batteries) ==
    LET distributed_power_value == request.power - remaining_power
        battery_distribution_keys ==
            get_all_from_map(inv_bats_map, DOMAIN distribution)
    IN  IF failed_power # 0
        THEN PartialFailure(request,
                            distributed_power_value - failed_power,
                            battery_distribution_keys \ failed_batteries,
                            failed_power, failed_batteries, remaining_power)
        ELSE Success(request, distributed_power_value,
                     battery_distribution_keys, remaining_power)

\* The response _run builds from the distribution and the parsed result.
build_response(request, distribution, remaining_power, failed_power, failed_batteries) ==
    LET distributed_power_value == request.power - remaining_power
        battery_distribution_keys ==
            get_all_from_map(inv_bats_map, DOMAIN distribution)
    IN  IF Cardinality(failed_batteries) > 0
        THEN PartialFailure(request,
                            distributed_power_value - failed_power,
                            battery_distribution_keys \ failed_batteries,
                            failed_power, failed_batteries, remaining_power)
        ELSE Success(request, distributed_power_value,
                     battery_distribution_keys, remaining_power)

\* The gather without the send of the response.
gather_without_send(response, succeed_batteries, failed_batteries) ==
    {[kind |-> "update_status", response |-> response,
      succeeded |-> succeed_batteries, failed |-> failed_batteries]}

\* The gather with the arguments of update_status swapped.
gather_swapped(response, succeed_batteries, failed_batteries) ==
    {[kind |-> "update_status", response |-> response,
      succeeded |-> failed_batteries, failed |-> succeed_batteries],
     [kind |-> "send", response |-> response, succeeded |-> {}, failed |-> {}]}

\* asyncio.gather(update_status(succeed_batteries, failed_batteries),
\* send(response)), not awaited: two tasks the event loop runs once _run is
\* suspended.
gather(response, succeed_batteries, failed_batteries) ==
    {[kind |-> "update_status", response |-> response,
      succeeded |-> succeed_batteries, failed |-> failed_batteries],
     [kind |-> "send", response |-> response, succeeded |-> {}, failed |-> {}]}

\* The end of one iteration of _run after _set_distributed_power returned.
Respond ==
    LET parsed == parse_result(CurTasks, cur.distribution)
        response == build_response(cur.request, cur.distribution,
                                   cur.remaining_power,
                                   parsed.failed_power, parsed.failed_batteries)
    IN  /\ background' = background \cup
                gather(response, response.succeeded_batteries, parsed.failed_batteries)
        /\ tasks' = {t \in tasks : ~Finished(t)}
        /\ cur' = Idle
        /\ pc' = "receive"
        /\ UNCHANGED <<gvars, rvars, requests_queue, nreq, status_calls, results>>

\* ----------------------------------------------------------------- actions

\* A user sends one of the given requests on the request channel.
SendRequestFrom(requests) ==
    /\ nreq < MaxRequests
    /\ \E r \in requests :
          requests_queue' = Append(requests_queue,
              [id |-> nreq + 1, batteries |-> r.batteries, power |-> r.power,
               adjust_power |-> r.adjust_power])
    /\ nreq' = nreq + 1
    /\ UNCHANGED <<gvars, rvars, pc, cur, tasks, background, status_calls, results>>

\* A user sends a request.
SendRequest == SendRequestFrom(Requests)

\* A user sends a request that is dispatched, one that is out of bounds, or
\* one that names a battery without inverter.
SendLiveRequest == SendRequestFrom(LiveRequests)

\* _run receives the next request and runs up to its next await: the send
\* of an Error or OutOfBounds result, or asyncio.wait on the set_power tasks.
ReceiveRequest ==
    /\ pc = "receive"
    /\ requests_queue # <<>>
    /\ requests_queue' = Tail(requests_queue)
    /\ \E working_batteries \in SUBSET Head(requests_queue).batteries,
          first \in FirstChoices :
      \E peek \in Caches(PeekedDevices(Head(requests_queue).batteries,
                                       working_batteries)) :
        LET request == Head(requests_queue)
            data == get_components_data(request.batteries, working_batteries,
                                        peek, first)
            error == check_request(request, data.pairs_data)
            answer(response) ==
                /\ cur' = [Idle EXCEPT !.request = request,
                                       !.working_batteries = working_batteries,
                                       !.pairs_data = data.pairs_data,
                                       !.response = response]
                /\ pc' = "send"
                /\ tasks' = tasks
        IN  IF data.raised
            THEN answer(Error(request, "KeyError"))
            ELSE IF data.pairs_data = {}
            THEN answer(Error(request, "No data for at least one of the given batteries"))
            ELSE IF error # NoResult
            THEN answer(error)
            ELSE \E result \in
                    distribute_power(request.power, data.pairs_data) \cup {ValueError} :
                    IF result.raised
                    THEN answer(Error(request, "Couldn't distribute power"))
                    ELSE /\ cur' = [Idle EXCEPT
                                      !.request = request,
                                      !.working_batteries = working_batteries,
                                      !.pairs_data = data.pairs_data,
                                      !.distribution = result.distribution,
                                      !.remaining_power = result.remaining_power]
                         /\ tasks' = tasks \cup
                                create_tasks(request, result.distribution)
                         /\ pc' = "wait"
    /\ UNCHANGED <<gvars, rvars, nreq, background, status_calls, results>>

\* The awaited send of an Error or OutOfBounds result followed by a break
\* out of the loop.
ResultSentAndStopped ==
    /\ pc = "send"
    /\ results' = Append(results, cur.response)
    /\ cur' = Idle
    /\ pc' = "stopped"
    /\ UNCHANGED <<gvars, rvars, requests_queue, nreq, tasks, background, status_calls>>

\* The awaited send of an Error or OutOfBounds result with a call of
\* update_status that takes the batteries of the request for failed.
ResultSentAndStatusUpdated ==
    /\ pc = "send"
    /\ results' = Append(results, cur.response)
    /\ status_calls' = Append(status_calls,
            [request |-> cur.response.request,
             succeeded |-> {}, failed |-> cur.response.request.batteries])
    /\ cur' = Idle
    /\ pc' = "receive"
    /\ UNCHANGED <<gvars, rvars, requests_queue, nreq, tasks, background>>

\* The awaited send of an Error or OutOfBounds result returns: the result
\* channel accepted the result.
ResultSent ==
    /\ pc = "send"
    /\ results' = Append(results, cur.response)
    /\ cur' = Idle
    /\ pc' = "receive"
    /\ UNCHANGED <<gvars, rvars, requests_queue, nreq, tasks, background, status_calls>>

\* A set_power call returns or raises an AioRpcError.
SetPowerReturns ==
    /\ \E t \in tasks, outcome \in {"ok", "out_of_range", "rpc_error"} :
        /\ t.state = "running"
        /\ tasks' = (tasks \ {t}) \cup {[t EXCEPT !.state = outcome]}
    /\ UNCHANGED <<gvars, rvars, requests_queue, nreq, pc, cur, background, status_calls, results>>

\* asyncio.wait returns with nothing pending; _cancel_tasks has nothing to
\* cancel.
WaitCompleted ==
    /\ pc = "wait"
    /\ \A t \in CurTasks : Finished(t)
    /\ Respond

\* asyncio.wait returns at the timeout with tasks pending; _cancel_tasks
\* cancels each of them and awaits them.
Timeout ==
    /\ pc = "wait"
    /\ \E t \in CurTasks : ~Finished(t)
    /\ tasks' = {IF t \in CurTasks /\ ~Finished(t)
                 THEN [t EXCEPT !.state = "cancelling"] ELSE t : t \in tasks}
    /\ pc' = "cancel"
    /\ UNCHANGED <<gvars, rvars, requests_queue, nreq, cur, background, status_calls, results>>

\* A cancelled set_power task ends with CancelledError.
TaskCancelled ==
    /\ \E t \in tasks :
        /\ t.state = "cancelling"
        /\ tasks' = (tasks \ {t}) \cup {[t EXCEPT !.state = "cancelled"]}
    /\ UNCHANGED <<gvars, rvars, requests_queue, nreq, pc, cur, background, status_calls, results>>

\* _cancel_tasks that cancels the tasks and does not await them.
CancelNotAwaited ==
    /\ pc = "cancel"
    /\ Respond

\* The gather of _cancel_tasks returns: every cancelled task has ended.
CancelAwaited ==
    /\ pc = "cancel"
    /\ \A t \in CurTasks : Finished(t)
    /\ Respond

\* The event loop runs the update_status task of a gather.
UpdateStatusRuns ==
    /\ \E t \in background :
        /\ t.kind = "update_status"
        /\ status_calls' = Append(status_calls,
                [request |-> t.response.request,
                 succeeded |-> t.succeeded, failed |-> t.failed])
        /\ background' = background \ {t}
    /\ UNCHANGED <<gvars, rvars, requests_queue, nreq, pc, cur, tasks, results>>

\* The event loop runs the send task of a gather and the result channel
\* accepts the result.
SendRuns ==
    /\ \E t \in background :
        /\ t.kind = "send"
        /\ results' = Append(results, t.response)
        /\ background' = background \ {t}
    /\ UNCHANGED <<gvars, rvars, requests_queue, nreq, pc, cur, tasks, status_calls>>

Next ==
    \/ SendRequest
    \/ ReceiveRequest
    \/ ResultSent
    \/ SetPowerReturns
    \/ WaitCompleted
    \/ Timeout
    \/ TaskCancelled
    \/ CancelAwaited
    \/ UpdateStatusRuns
    \/ SendRuns

Spec == Init /\ [][Next]_vars

\* The steps of the _run coroutine.
MainLoop ==
    \/ ReceiveRequest
    \/ ResultSent
    \/ WaitCompleted
    \/ Timeout
    \/ CancelAwaited

\* The same actor with fewer kinds of requests, and with fairness: the event
\* loop runs every task that can run, asyncio.wait returns at the timeout at
\* the latest, and the result channel accepts every result.
LiveNext ==
    \/ SendLiveRequest
    \/ ReceiveRequest
    \/ ResultSent
    \/ SetPowerReturns
    \/ WaitCompleted
    \/ Timeout
    \/ TaskCancelled
    \/ CancelAwaited
    \/ UpdateStatusRuns
    \/ SendRuns

LiveSpec ==
    /\ Init
    /\ [][LiveNext]_vars
    /\ WF_vars(MainLoop)
    /\ WF_vars(TaskCancelled)
    /\ WF_vars(UpdateStatusRuns)
    /\ WF_vars(SendRuns)

\* ------------------------------------------- _check_request on its own

\* A request and a snapshot with which _run reaches _check_request: the
\* snapshot did not raise and is not empty.
CheckInit ==
    /\ requests_queue = <<>>
    /\ nreq = 0
    /\ pc = "check"
    /\ tasks = {}
    /\ background = {}
    /\ status_calls = <<>>
    /\ results = <<>>
    /\ ConstructedOn(GraphEdges, <<1, 2, 3, 4>>)
    /\ NoResampling
    /\ \E request \in CheckRequests, first \in FirstChoices :
       \E working_batteries \in SUBSET request.batteries :
       \E peek \in Caches(PeekedDevices(request.batteries, working_batteries)) :
        LET data == get_components_data(request.batteries, working_batteries,
                                        peek, first)
        IN  /\ ~data.raised
            /\ data.pairs_data # {}
            /\ cur = [Idle EXCEPT !.request = request,
                                  !.working_batteries = working_batteries,
                                  !.pairs_data = data.pairs_data]

\* error = self._check_request(request, pairs_data)
CheckRequest ==
    /\ pc = "check"
    /\ cur' = [cur EXCEPT !.response = check_request(cur.request, cur.pairs_data)]
    /\ pc' = "checked"
    /\ UNCHANGED <<gvars, rvars, requests_queue, nreq, tasks, background, status_calls, results>>

CheckSpec == CheckInit /\ [][CheckRequest]_vars

\* ------------------------------------------------- _get_bounds on its own

\* Whether inclusion_lower <= exclusion_lower <= 0 <= exclusion_upper <=
\* inclusion_upper.
Ordered(bounds) ==
    /\ bounds.inclusion_lower <= bounds.exclusion_lower
    /\ bounds.exclusion_lower <= 0
    /\ 0 <= bounds.exclusion_upper
    /\ bounds.exclusion_upper <= bounds.inclusion_upper

\* The bounds a battery or an inverter reports (watts), all of them ordered.
OrderedBounds ==
    {b \in [inclusion_lower : {-100, -10}, exclusion_lower : {-50, -10, 0},
            exclusion_upper : {0, 10, 50}, inclusion_upper : {10, 100}] :
        Ordered(b)}

\* The latest sample of a device with the given bounds.
SampleWith(bounds) == [present |-> TRUE, nan |-> FALSE, power_bounds |-> bounds]

\* The snapshots _get_bounds is applied to: battery 1 and inverter 11 with
\* any ordered bounds, alone or with the batteries 2 and 3 and inverter 12.
BoundsSnapshots ==
    {get_components_data({1, 2, 3}, working_batteries,
        (1 :> SampleWith(battery) @@ 11 :> SampleWith(inverter)
            @@ 2 :> SampleWith(PowerBounds(-100, -10, 10, 100))
            @@ 3 :> SampleWith(PowerBounds(-100, -10, 10, 100))
            @@ 12 :> SampleWith(PowerBounds(-100, -50, 50, 100))),
        [s \in {{1}, {2, 3}} |-> CHOOSE b \in s : TRUE]).pairs_data :
            working_batteries \in {{1}, {1, 2}},
            battery \in OrderedBounds, inverter \in OrderedBounds}

BoundsInit ==
    /\ requests_queue = <<>>
    /\ nreq = 0
    /\ pc = "get_bounds"
    /\ tasks = {}
    /\ background = {}
    /\ status_calls = <<>>
    /\ results = <<>>
    /\ ConstructedOn(GraphEdges, <<1, 2, 3, 4>>)
    /\ NoResampling
    /\ \E pairs_data \in BoundsSnapshots :
        cur = [Idle EXCEPT !.pairs_data = pairs_data]

\* bounds = self._get_bounds(pairs_data)
GetBounds ==
    /\ pc = "get_bounds"
    /\ cur' = [cur EXCEPT !.response.bounds = get_bounds(cur.pairs_data)]
    /\ pc' = "bounds"
    /\ UNCHANGED <<gvars, rvars, requests_queue, nreq, tasks, background, status_calls, results>>

BoundsSpec == BoundsInit /\ [][GetBounds]_vars

\* ------------------------------------------------- the actor on any graph

\* What peek() returns for every battery and every inverter at one moment,
\* with at most MaxBadDevices devices that sent nothing yet or sent NaN.
CachesOfAll ==
    {c \in [Batteries \cup Inverters -> BatterySamples \cup InverterSamples] :
        /\ \A b \in Batteries : c[b] \in BatterySamples
        /\ \A i \in Inverters : c[i] \in InverterSamples
        /\ Cardinality({d \in Batteries \cup Inverters : ~Usable(c[d])})
                <= MaxBadDevices}

\* The choices next(iter(battery_ids)) has for every set of batteries.
FirstChoicesOfAll ==
    {f \in [SUBSET Batteries \ {{}} -> Batteries] :
        \A s \in SUBSET Batteries \ {{}} : f[s] \in s}

\* _get_components_data(batteries) of an actor that keeps the maps m.  The
\* keys of _battery_receivers are the keys of the battery to inverters map.
get_components_data_on(m, batteries, working_batteries, peek, first) ==
    IF \/ \E battery_id \in working_batteries : battery_id \notin DOMAIN m.bat_invs
       \/ \E battery_id \in batteries : battery_id \notin DOMAIN m.bat_invs
       \/ get_all_from_map(m.inv_bats, get_all_from_map(m.bat_invs, batteries))
                # batteries
    THEN KeyError
    ELSE LET battery_sets == {m.bat_bats[wb] : wb \in working_batteries}
         IN  [raised |-> FALSE,
              pairs_data |->
                {get_battery_inverter_data(s, m.bat_invs[first[s]], peek) :
                    s \in battery_sets} \ {NoPair}]

\* The requests sent to the actor on any graph.
TopologyRequests ==
    [id : {1}, batteries : SUBSET Batteries \ {{}}, power : {300},
     adjust_power : {FALSE}]

\* An actor constructed on any component graph, before its first request.
TopologyInit ==
    /\ requests_queue = <<>>
    /\ nreq = 0
    /\ pc = "receive"
    /\ cur = Idle
    /\ tasks = {}
    /\ background = {}
    /\ status_calls = <<>>
    /\ results = <<>>
    /\ NoResampling
    /\ \E graph \in ComponentGraphs, batteries \in BatteryOrders :
        ConstructedOn(graph, batteries)

\* _run receives a request and runs up to its next await, as ReceiveRequest,
\* on the maps of the graph the actor was constructed on.  A request that
\* gets as far as _check_request names batteries of the maps only.
ReceiveRequestOnGraph ==
    /\ pc = "receive"
    /\ \E request \in TopologyRequests,
          first \in FirstChoicesOfAll,
          peek \in CachesOfAll :
       \E working_batteries \in SUBSET request.batteries :
        LET data == get_components_data_on(maps, request.batteries,
                                           working_batteries, peek, first)
            error == check_request(request, data.pairs_data)
            answer(response) ==
                /\ cur' = [Idle EXCEPT !.request = request,
                                       !.working_batteries = working_batteries,
                                       !.pairs_data = data.pairs_data,
                                       !.response = response]
                /\ pc' = "send"
                /\ tasks' = tasks
            battery_sets == IF data.raised THEN {}
                            ELSE {maps.bat_bats[wb] : wb \in working_batteries}
            devices == UNION battery_sets
                        \cup UNION {maps.bat_invs[first[s]] : s \in battery_sets}
        IN  /\ peeked' = [d \in devices |-> peek[d]]
            /\ first_of' = [s \in battery_sets |-> first[s]]
            /\ IF data.raised
               THEN answer(Error(request, "KeyError"))
               ELSE IF data.pairs_data = {}
               THEN answer(Error(request, "No data for at least one of the given batteries"))
               ELSE IF error # NoResult
               THEN answer(error)
               ELSE \E result \in
                       distribute_power(request.power, data.pairs_data) \cup {ValueError} :
                       IF result.raised
                       THEN answer(Error(request, "Couldn't distribute power"))
                       ELSE /\ cur' = [Idle EXCEPT
                                         !.request = request,
                                         !.working_batteries = working_batteries,
                                         !.pairs_data = data.pairs_data,
                                         !.distribution = result.distribution,
                                         !.remaining_power = result.remaining_power]
                            /\ tasks' = tasks \cup
                                   create_tasks(request, result.distribution)
                            /\ pc' = "wait"
    /\ UNCHANGED <<component_graph, maps, rvars, requests_queue, nreq, background,
                   status_calls, results>>

TopologySpec == TopologyInit /\ [][ReceiveRequestOnGraph]_vars

\* ------------------------------------------- resampler: the helper of a source

\* The last n items of a sequence: what a deque of maxlen n keeps.
LastItems(seq, n) ==
    IF Len(seq) <= n THEN seq ELSE SubSeq(seq, Len(seq) - n + 1, Len(seq))

RECURSIVE GCD(_, _)
\* The greatest common divisor, for floats kept as num / den.
GCD(a, b) == IF b = 0 THEN a ELSE GCD(b, a % b)

\* math.ceil(a / b) for a >= 0 and b > 0.
Ceil(a, b) == (a + b - 1) \div b

RECURSIVE SumNum(_)
\* sum(values) of samples whose den is 1.
SumNum(samples) ==
    IF samples = <<>> THEN 0 ELSE Head(samples).num + SumNum(Tail(samples))

\* The value of the most recent sample instead of the average.
average_of_latest(samples, timestamp) ==
    [samples[Len(samples)] EXCEPT !.timestamp = timestamp]

\* average(samples, resampler_config, source_properties) at time t: the sum
\* of the values that are not None over their number.
average(samples, timestamp) ==
    LET values == SelectSeq(samples, LAMBDA x : x.kind # "None")
        total == SumNum(values)
        g == GCD(total, Len(values))
    IN  IF \E i \in DOMAIN values : values[i].kind = "NaN"
        THEN Sample(timestamp, "NaN", 0, 1)
        ELSE Sample(timestamp, "value", total \div g, Len(values) \div g)

\* _ResamplingHelper.add_sample(sample)
add_sample(helper, sample) ==
    [helper EXCEPT
        !.buffer = LastItems(Append(@, sample), helper.maxlen),
        !.sampling_start = IF @ = -1 THEN sample.timestamp ELSE @,
        !.received_samples = @ + 1]

\* The body of the loop of _receive_samples with every sample passed on.
receive_samples_unfiltered(helper, sample) ==
    IF sample.kind # "None" THEN add_sample(helper, sample) ELSE helper

\* The body of the loop of _StreamingHelper._receive_samples.
receive_samples(helper, sample) ==
    IF sample.kind # "None" /\ sample.kind # "NaN"
    THEN add_sample(helper, sample)
    ELSE helper

\* _update_source_sample_period that infers the period again when it is
\* known already.
update_source_sample_period_again(helper, now, cfg) ==
    IF \/ helper.sampling_start = -1
       \/ helper.received_samples
            < cfg.resampling_period_s * cfg.max_data_age_in_periods
       \/ Len(helper.buffer) < helper.maxlen
       \/ now <= helper.sampling_start
    THEN helper
    ELSE [helper EXCEPT !.sampling_period_s =
            [num |-> now - helper.sampling_start,
             den |-> helper.received_samples]]

\* _ResamplingHelper._update_source_sample_period(now): the helper with the
\* period set, or the helper as it was (the method returned False).
update_source_sample_period(helper, now, cfg) ==
    IF \/ helper.sampling_period_s # NoPeriod
       \/ helper.sampling_start = -1
       \/ helper.received_samples
            < cfg.resampling_period_s * cfg.max_data_age_in_periods
       \/ Len(helper.buffer) < helper.maxlen
       \/ now <= helper.sampling_start
    THEN helper
    ELSE [helper EXCEPT !.sampling_period_s =
            [num |-> now - helper.sampling_start,
             den |-> helper.received_samples]]

\* _update_buffer_len that does not cut the new length to max_buffer_len.
update_buffer_len_of_any_length(helper, period, max_data_age_in_periods, max_buffer_len) ==
    LET input == helper.sampling_period_s
        new_buffer_len ==
            IF input.num * period.den > period.num * input.den
            THEN Ceil(input.num * max_data_age_in_periods, input.den)
            ELSE Ceil(period.num * input.den * max_data_age_in_periods,
                      period.den * input.num)
        at_least_one == Max2(1, new_buffer_len)
    IN  IF at_least_one = helper.maxlen
        THEN helper
        ELSE [helper EXCEPT !.buffer = LastItems(@, at_least_one),
                            !.maxlen = at_least_one]

\* _ResamplingHelper._update_buffer_len() for a resampling period of
\* period.num / period.den seconds: the new length is the input period times
\* max_data_age_in_periods when the input period is the bigger one, else
\* the resampling period over the input period times max_data_age_in_periods.
update_buffer_len_of(helper, period, max_data_age_in_periods, max_buffer_len) ==
    LET input == helper.sampling_period_s
        new_buffer_len ==
            IF input.num * period.den > period.num * input.den
            THEN Ceil(input.num * max_data_age_in_periods, input.den)
            ELSE Ceil(period.num * input.den * max_data_age_in_periods,
                      period.den * input.num)
        at_least_one == Max2(1, new_buffer_len)
        truncated == IF at_least_one > max_buffer_len
                     THEN max_buffer_len
                     ELSE at_least_one
    IN  IF truncated = helper.maxlen
        THEN helper
        ELSE [helper EXCEPT !.buffer = LastItems(@, truncated),
                            !.maxlen = truncated]

\* _ResamplingHelper._update_buffer_len() for a resampling period of whole
\* seconds.
update_buffer_len(helper, cfg) ==
    update_buffer_len_of(helper, [num |-> cfg.resampling_period_s, den |-> 1],
                         cfg.max_data_age_in_periods, cfg.max_buffer_len)

\* bisect(buffer, key) on a buffer ordered by timestamp: the number of
\* samples that are not after the key.
bisect(buffer, NotAfter(_)) ==
    Cardinality({i \in DOMAIN buffer : NotAfter(buffer[i])})

\* _ResamplingHelper.resample that takes the samples after the timestamp
\* for relevant too.
helper_resample_with_future(helper, timestamp, cfg) ==
    LET updated == update_source_sample_period(helper, timestamp, cfg)
        h == IF updated # helper THEN update_buffer_len(updated, cfg) ELSE updated
        known == h.sampling_period_s # NoPeriod
        pden == IF known THEN h.sampling_period_s.den ELSE 1
        pnum == IF known
                THEN Max2(cfg.resampling_period_s * pden, h.sampling_period_s.num)
                ELSE cfg.resampling_period_s
        TooOld(sample) ==
            (timestamp - sample.timestamp) * pden
                >= pnum * cfg.max_data_age_in_periods
        min_index == bisect(h.buffer, TooOld)
        max_index == Len(h.buffer)
        relevant_samples == SubSeq(h.buffer, min_index + 1, max_index)
    IN  [helper |-> h,
         sample |-> IF relevant_samples # <<>>
                    THEN average(relevant_samples, timestamp)
                    ELSE Sample(timestamp, "None", 0, 1),
         called |-> relevant_samples # <<>>,
         input |-> relevant_samples]

\* _ResamplingHelper.resample that takes every sample of the buffer up to
\* the timestamp for relevant.
helper_resample_without_age(helper, timestamp, cfg) ==
    LET updated == update_source_sample_period(helper, timestamp, cfg)
        h == IF updated # helper THEN update_buffer_len(updated, cfg) ELSE updated
        known == h.sampling_period_s # NoPeriod
        \* period = max(resampling_period_s, sampling_period_s) = pnum / pden
        pden == IF known THEN h.sampling_period_s.den ELSE 1
        pnum == IF known
                THEN Max2(cfg.resampling_period_s * pden, h.sampling_period_s.num)
                ELSE cfg.resampling_period_s
        \* sample.timestamp <= timestamp - period * max_data_age_in_periods
        TooOld(sample) ==
            (timestamp - sample.timestamp) * pden
                >= pnum * cfg.max_data_age_in_periods
        Past(sample) == sample.timestamp <= timestamp
        min_index == 0
        max_index == bisect(h.buffer, Past)
        relevant_samples == SubSeq(h.buffer, min_index + 1, max_index)
    IN  [helper |-> h,
         sample |-> IF relevant_samples # <<>>
                    THEN average(relevant_samples, timestamp)
                    ELSE Sample(timestamp, "None", 0, 1),
         called |-> relevant_samples # <<>>,
         input |-> relevant_samples]

\* _ResamplingHelper.resample that takes the sample stamped with the
\* minimum relevant timestamp for relevant too.
helper_resample_oldest_included(helper, timestamp, cfg) ==
    LET updated == update_source_sample_period(helper, timestamp, cfg)
        h == IF updated # helper THEN update_buffer_len(updated, cfg) ELSE updated
        known == h.sampling_period_s # NoPeriod
        pden == IF known THEN h.sampling_period_s.den ELSE 1
        pnum == IF known
                THEN Max2(cfg.resampling_period_s * pden, h.sampling_period_s.num)
                ELSE cfg.resampling_period_s
        TooOld(sample) ==
            (timestamp - sample.timestamp) * pden
                > pnum * cfg.max_data_age_in_periods
        Past(sample) == sample.timestamp <= timestamp
        min_index == bisect(h.buffer, TooOld)
        max_index == bisect(h.buffer, Past)
        relevant_samples == SubSeq(h.buffer, min_index + 1, max_index)
    IN  [helper |-> h,
         sample |-> IF relevant_samples # <<>>
                    THEN average(relevant_samples, timestamp)
                    ELSE Sample(timestamp, "None", 0, 1),
         called |-> relevant_samples # <<>>,
         input |-> relevant_samples]

\* _ResamplingHelper.resample(timestamp): the helper after the call, the new
\* sample, and the relevant samples given to the resampling function.
helper_resample(helper, timestamp, cfg) ==
    LET updated == update_source_sample_period(helper, timestamp, cfg)
        h == IF updated # helper THEN update_buffer_len(updated, cfg) ELSE updated
        known == h.sampling_period_s # NoPeriod
        \* period = max(resampling_period_s, sampling_period_s) = pnum / pden
        pden == IF known THEN h.sampling_period_s.den ELSE 1
        pnum == IF known
                THEN Max2(cfg.resampling_period_s * pden, h.sampling_period_s.num)
                ELSE cfg.resampling_period_s
        \* sample.timestamp <= timestamp - period * max_data_age_in_periods
        TooOld(sample) ==
            (timestamp - sample.timestamp) * pden
                >= pnum * cfg.max_data_age_in_periods
        Past(sample) == sample.timestamp <= timestamp
        min_index == bisect(h.buffer, TooOld)
        max_index == bisect(h.buffer, Past)
        relevant_samples == SubSeq(h.buffer, min_index + 1, max_index)
    IN  [helper |-> h,
         sample |-> IF relevant_samples # <<>>
                    THEN average(relevant_samples, timestamp)
                    ELSE Sample(timestamp, "None", 0, 1),
         called |-> relevant_samples # <<>>,
         input |-> relevant_samples]

\* _StreamingHelper.resample that raises only when the receiving task ended
\* with an exception.
streaming_resample_only_exceptions(helper, timestamp, cfg) ==
    IF helper.receiving_task \notin {"running", "stopped"}
    THEN [source |-> helper.source, state |-> "done",
          result |-> helper.receiving_task, helper |-> helper,
          sample |-> Sample(timestamp, "None", 0, 1),
          called |-> FALSE, input |-> <<>>]
    ELSE LET r == helper_resample(helper, timestamp, cfg)
         IN  [source |-> helper.source, state |-> "sending",
              result |-> "None", helper |-> r.helper,
              sample |-> r.sample, called |-> r.called, input |-> r.input]

\* _StreamingHelper.resample(timestamp) up to its await of the sink: the
\* exception it raises when the receiving task is done, else the sample
\* it is sending.
streaming_resample(helper, timestamp, cfg) ==
    IF helper.receiving_task = "stopped"
    THEN [source |-> helper.source, state |-> "done",
          result |-> "SourceStoppedError", helper |-> helper,
          sample |-> Sample(timestamp, "None", 0, 1),
          called |-> FALSE, input |-> <<>>]
    ELSE IF helper.receiving_task # "running"
    THEN [source |-> helper.source, state |-> "done",
          result |-> helper.receiving_task, helper |-> helper,
          sample |-> Sample(timestamp, "None", 0, 1),
          called |-> FALSE, input |-> <<>>]
    ELSE LET r == helper_resample(helper, timestamp, cfg)
         IN  [source |-> helper.source, state |-> "sending",
              result |-> "None", helper |-> r.helper,
              sample |-> r.sample, called |-> r.called, input |-> r.input]

\* --------------------------------------------------- resampler: the actions

\* The sources with a helper in _resamplers.
Registered == {resamplers[i].source : i \in DOMAIN resamplers}

\* The place of a registered source in _resamplers.
IndexOf(source) == CHOOSE i \in DOMAIN resamplers : resamplers[i].source = source

\* A sequence without its i-th item: del on a dict keeps the order of the rest.
Without(seq, i) == SubSeq(seq, 1, i - 1) \o SubSeq(seq, i + 1, Len(seq))

\* The helper of a source replaced by a new one, and True.
add_timeseries_replaces(helpers, source, sink, cfg) ==
    LET at == {i \in DOMAIN helpers : helpers[i].source = source}
    IN  [resamplers |->
            IF at = {} THEN Append(helpers, StreamingHelper(source, sink, cfg))
            ELSE [i \in DOMAIN helpers |->
                    IF i \in at THEN StreamingHelper(source, sink, cfg)
                    ELSE helpers[i]],
         returns |-> TRUE]

\* Resampler.add_timeseries(name, source, sink): False for a source that is
\* in _resamplers, else a new helper at the end of _resamplers and True.
add_timeseries(helpers, source, sink, cfg) ==
    IF \E i \in DOMAIN helpers : helpers[i].source = source
    THEN [resamplers |-> helpers, returns |-> FALSE]
    ELSE [resamplers |-> Append(helpers, StreamingHelper(source, sink, cfg)),
          returns |-> TRUE]

\* Resampler.remove_timeseries(source): False for a source that is not in
\* _resamplers (the KeyError of del), else its helper is deleted and True.
remove_timeseries(helpers, source) ==
    LET at == {i \in DOMAIN helpers : helpers[i].source = source}
    IN  IF at = {}
        THEN [resamplers |-> helpers, returns |-> FALSE]
        ELSE [resamplers |-> Without(helpers, CHOOSE i \in at : TRUE),
              returns |-> TRUE]

\* A call of add_timeseries whose value is not looked at.  A source is
\* added once.
AddTimeseriesOf(sources) ==
    \E source \in sources :
        /\ source \in Registered \/ source \notin added
        /\ resamplers' = add_timeseries(resamplers, source, "first", config).resamplers
        /\ IF source \in Registered
           THEN UNCHANGED <<added, sent>>
           ELSE /\ added' = added \cup {source}
                /\ sent' = [sent EXCEPT ![source] = NoSinkCall]
        /\ UNCHANGED <<gvars, removed, returned, requests_queue, nreq, pc, cur, tasks, background,
                       status_calls, results, config, rnow, window_end, rpc,
                       gathered, raised, ticks, nsamples>>

\* add_timeseries on a resampler of two sources.
AddTimeseries == AddTimeseriesOf(Sources)

\* add_timeseries on a resampler of one source.
AddOneTimeseries == AddTimeseriesOf({"a"})

\* What is left of the helper `del self._resamplers[source]` takes out of
\* the dict: nothing calls its stop(), so the task its constructor created
\* is in the state it was in, and it has consumed nothing since.
deleted(helpers, source) ==
    {[source |-> source, receiving_task |-> helpers[i].receiving_task,
      consumed |-> 0] : i \in {j \in DOMAIN helpers : helpers[j].source = source}}

\* The deleted helpers after remove_timeseries(source): of every source the
\* helper deleted last.
removed_after(helpers, source) ==
    IF deleted(helpers, source) = {}
    THEN removed
    ELSE {h \in removed : h.source # source} \cup deleted(helpers, source)

\* A call of remove_timeseries whose value is not looked at.
RemoveTimeseries ==
    \E source \in Sources :
        /\ source \in added
        /\ resamplers' = remove_timeseries(resamplers, source).resamplers
        /\ removed' = removed_after(resamplers, source)
        /\ UNCHANGED <<gvars, returned, requests_queue, nreq, pc, cur, tasks, background,
                       status_calls, results, config, rnow, window_end, rpc,
                       gathered, raised, sent, ticks, added, nsamples>>

\* A call of add_timeseries, with any source and sink, and the value it
\* returns.
AddTimeseriesReturns ==
    \E source \in Sources, sink \in Sinks :
        LET call == add_timeseries(resamplers, source, sink, config)
        IN  /\ resamplers' = call.resamplers
            /\ returned' = [call |-> "add_timeseries", source |-> source,
                            sink |-> sink, value |-> call.returns]
            /\ added' = added \cup {source}
            /\ sent' = IF call.returns
                       THEN [sent EXCEPT ![source] = NoSinkCall]
                       ELSE sent
            /\ UNCHANGED <<gvars, removed, requests_queue, nreq, pc, cur, tasks, background,
                           status_calls, results, config, rnow, window_end, rpc,
                           gathered, raised, ticks, nsamples>>

\* A call of remove_timeseries, with any source, and the value it returns.
RemoveTimeseriesReturns ==
    \E source \in Sources :
        LET call == remove_timeseries(resamplers, source)
        IN  /\ resamplers' = call.resamplers
            /\ removed' = removed_after(resamplers, source)
            /\ returned' = [call |-> "remove_timeseries", source |-> source,
                            sink |-> "None", value |-> call.returns]
            /\ UNCHANGED <<gvars, requests_queue, nreq, pc, cur, tasks, background,
                           status_calls, results, config, rnow, window_end, rpc,
                           gathered, raised, sent, ticks, added, nsamples>>

\* The source of a registered helper delivers a sample, stamped with the
\* time it is delivered at, to the receiving task.
SourceSendsOf(values, max) ==
    \E source \in Registered, value \in values :
        LET i == IndexOf(source)
        IN  /\ nsamples < max
            /\ resamplers[i].receiving_task = "running"
            /\ resamplers' = [resamplers EXCEPT ![i] =
                    receive_samples(@, Sample(rnow, value.kind, value.num, 1))]
            /\ nsamples' = nsamples + 1
    /\ UNCHANGED <<gvars, removed, returned, requests_queue, nreq, pc, cur, tasks, background,
                   status_calls, results, config, rnow, window_end, rpc,
                   gathered, raised, sent, ticks, added>>

\* A sample on a resampler of two sources.
SourceSends == SourceSendsOf(SourceValuesOfTwo, MaxSamplesOfTwo)

\* A sample on a resampler of one source.
OneSourceSends == SourceSendsOf(SourceValues, MaxSamples)

\* The source of a registered helper ends: the receiving task returns.
SourceStops ==
    \E source \in Registered :
        LET i == IndexOf(source)
        IN  /\ resamplers[i].receiving_task = "running"
            /\ resamplers' = [resamplers EXCEPT ![i].receiving_task = "stopped"]
    /\ UNCHANGED <<gvars, removed, returned, requests_queue, nreq, pc, cur, tasks, background,
                   status_calls, results, config, rnow, window_end, rpc,
                   gathered, raised, sent, ticks, added, nsamples>>

\* The source of a registered helper raises: the receiving task ends with
\* the exception.
SourceRaises ==
    \E source \in Registered, exception \in SourceExceptions :
        LET i == IndexOf(source)
        IN  /\ resamplers[i].receiving_task = "running"
            /\ resamplers' = [resamplers EXCEPT ![i].receiving_task = exception]
    /\ UNCHANGED <<gvars, removed, returned, requests_queue, nreq, pc, cur, tasks, background,
                   status_calls, results, config, rnow, window_end, rpc,
                   gathered, raised, sent, ticks, added, nsamples>>

\* A second passes.
AdvanceClockTo(max) ==
    /\ rnow < max
    /\ rnow' = rnow + 1
    /\ UNCHANGED <<gvars, removed, returned, requests_queue, nreq, pc, cur, tasks, background,
                   status_calls, results, config, window_end, rpc, resamplers,
                   gathered, raised, sent, ticks, added, nsamples>>

\* The clock of a resampler of one source.
AdvanceClock == AdvanceClockTo(MaxTime)

\* The clock of a resampler of two sources.
AdvanceClockOfTwo == AdvanceClockTo(MaxTimeOfTwo)

\* The source of a deleted helper delivers a sample: the task of the helper,
\* `async for sample in self._source`, is still iterating the source and
\* takes it.
RemovedSourceSends ==
    \E h \in removed :
        /\ nsamples < MaxSamplesOfTwo
        /\ h.receiving_task = "running"
        /\ removed' = (removed \ {h}) \cup {[h EXCEPT !.consumed = @ + 1]}
        /\ nsamples' = nsamples + 1
        /\ UNCHANGED <<gvars, returned, requests_queue, nreq, pc, cur, tasks, background,
                       status_calls, results, config, rnow, window_end, rpc,
                       resamplers, gathered, raised, sent, ticks, added>>

\* The event loop holds its tasks by weak references only: once the helper
\* is deleted, the garbage collector may destroy its pending task.
RemovedTaskDestroyed ==
    \E h \in removed :
        /\ h.receiving_task = "running"
        /\ removed' = (removed \ {h}) \cup {[h EXCEPT !.receiving_task = "destroyed"]}
        /\ UNCHANGED <<gvars, returned, requests_queue, nreq, pc, cur, tasks, background,
                       status_calls, results, config, rnow, window_end, rpc,
                       resamplers, gathered, raised, sent, ticks, added, nsamples>>

\* Resampler.resample() is called.
CallResample ==
    /\ rpc = "idle"
    /\ rpc' = "sleep"
    /\ raised' = NoError
    /\ UNCHANGED <<gvars, removed, returned, requests_queue, nreq, pc, cur, tasks, background,
                   status_calls, results, config, rnow, window_end, resamplers,
                   gathered, sent, ticks, added, nsamples>>

\* _wait_for_next_resampling_period returns, at window_end or later, and
\* the gather runs helper.resample(window_end) of every registered helper
\* up to its await of the sink.
StartGather ==
    /\ rpc = "sleep"
    /\ rnow >= window_end
    /\ resamplers # <<>>
    /\ LET call(i) == streaming_resample(resamplers[i], window_end, config)
       IN  /\ gathered' = [i \in DOMAIN resamplers |->
                [source |-> call(i).source, state |-> call(i).state,
                 result |-> call(i).result, sample |-> call(i).sample,
                 called |-> call(i).called, input |-> call(i).input]]
           /\ resamplers' = [i \in DOMAIN resamplers |-> call(i).helper]
    /\ rpc' = "gather"
    /\ UNCHANGED <<gvars, removed, returned, requests_queue, nreq, pc, cur, tasks, background,
                   status_calls, results, config, rnow, window_end, raised,
                   sent, ticks, added, nsamples>>

\* The sink of a helper returns, or raises.
SinkReturnsOrRaises(outcomes) ==
    \E i \in DOMAIN gathered, ok \in outcomes :
        /\ gathered[i].state = "sending"
        /\ sent' = [sent EXCEPT ![gathered[i].source] =
                        [n |-> @.n + 1, sample |-> gathered[i].sample]]
        /\ gathered' = [gathered EXCEPT
                            ![i].state = "done",
                            ![i].result = IF ok THEN "None" ELSE "SinkError"]
    /\ UNCHANGED <<gvars, removed, returned, requests_queue, nreq, pc, cur, tasks, background,
                   status_calls, results, config, rnow, window_end, rpc,
                   resamplers, raised, ticks, added, nsamples>>

\* The sink of a helper returns or raises.
SinkCalled == SinkReturnsOrRaises(BOOLEAN)

\* The sink of a helper returns.
SinkReturns == SinkReturnsOrRaises({TRUE})

\* The window_end moved by the wall clock.
next_window_end_from_clock(end, now, failed, cfg) ==
    Max2(end, now) + cfg.resampling_period_s

\* The window_end left as it is in a tick with exceptions.
next_window_end_unless_failed(end, now, failed, cfg) ==
    IF failed THEN end ELSE end + cfg.resampling_period_s

\* self._window_end + timedelta(seconds=self._config.resampling_period_s)
next_window_end(end, now, failed, cfg) == end + cfg.resampling_period_s

\* The exceptions dict without the exceptions the sinks raised.
exceptions_of_sources_only(helpers, gather_results) ==
    {<<helpers[i].source, gather_results[i].result>> :
        i \in {j \in DOMAIN helpers :
                gather_results[j].result \notin {"None", "SinkError"}}}

\* The exceptions dict of Resampler.resample: the sources of _resamplers as
\* they are now, each with the result of the gather at its place.
exceptions_of(helpers, gather_results) ==
    {<<helpers[i].source, gather_results[i].result>> :
        i \in {j \in DOMAIN helpers : gather_results[j].result # "None"}}

\* The gather returns: window_end moves on, and resample raises
\* ResamplingError if there are exceptions (IndexError if _resamplers is
\* now longer than the results), else goes back to waiting.
EndTick ==
    /\ rpc = "gather"
    /\ \A i \in DOMAIN gathered : gathered[i].state = "done"
    /\ window_end' = next_window_end(window_end, rnow,
            \E i \in DOMAIN gathered : gathered[i].result # "None", config)
    /\ ticks' = ticks + 1
    /\ gathered' = <<>>
    /\ IF Len(resamplers) > Len(gathered)
       THEN /\ raised' = [type |-> "IndexError", exceptions |-> {}]
            /\ rpc' = "idle"
       ELSE LET exceptions == exceptions_of(resamplers, gathered)
            IN  IF exceptions # {}
                THEN /\ raised' = [type |-> "ResamplingError",
                                   exceptions |-> exceptions]
                     /\ rpc' = "idle"
                ELSE /\ raised' = NoError
                     /\ rpc' = "sleep"
    /\ UNCHANGED <<gvars, removed, returned, requests_queue, nreq, pc, cur, tasks, background,
                   status_calls, results, config, rnow, resamplers, sent,
                   added, nsamples>>

\* A tick without helpers: the gather of nothing returns at once, window_end
\* moves on and resample goes back to waiting, all without suspending.
EmptyTick ==
    /\ rpc = "sleep"
    /\ rnow >= window_end
    /\ resamplers = <<>>
    /\ window_end' = next_window_end(window_end, rnow, FALSE, config)
    /\ ticks' = ticks + 1
    /\ UNCHANGED <<gvars, removed, returned, requests_queue, nreq, pc, cur, tasks, background,
                   status_calls, results, config, rnow, rpc, resamplers,
                   gathered, raised, sent, added, nsamples>>

\* A resampler of two sources, and no power distributor.
ResamplerInit ==
    /\ requests_queue = <<>>
    /\ nreq = 0
    /\ pc = "receive"
    /\ cur = Idle
    /\ tasks = {}
    /\ background = {}
    /\ status_calls = <<>>
    /\ results = <<>>
    /\ ConstructedOn(GraphEdges, <<1, 2, 3, 4>>)
    /\ \E cfg \in ConfigsOfTwo : NewResampler(cfg)

\* A resampler of two sources that stop, raise, and are added and removed
\* at any time, with sinks that raise.
ResamplerNext ==
    \/ AddTimeseries
    \/ RemoveTimeseries
    \/ SourceSends
    \/ SourceStops
    \/ SourceRaises
    \/ AdvanceClockOfTwo
    \/ CallResample
    \/ StartGather
    \/ SinkCalled
    \/ EndTick
    \/ EmptyTick

ResamplerSpec == ResamplerInit /\ [][ResamplerNext]_vars

\* The resampler, its sources and the tasks of the helpers it deleted.
RemovalNext ==
    \/ AddTimeseries
    \/ RemoveTimeseries
    \/ SourceSends
    \/ RemovedSourceSends
    \/ RemovedTaskDestroyed
    \/ AdvanceClockOfTwo
    \/ CallResample
    \/ StartGather
    \/ SinkCalled
    \/ EndTick
    \/ EmptyTick

RemovalSpec == ResamplerInit /\ [][RemovalNext]_vars

\* A resampler with one of the configurations, and no power distributor.
HelperInit ==
    /\ requests_queue = <<>>
    /\ nreq = 0
    /\ pc = "receive"
    /\ cur = Idle
    /\ tasks = {}
    /\ background = {}
    /\ status_calls = <<>>
    /\ results = <<>>
    /\ ConstructedOn(GraphEdges, <<1, 2, 3, 4>>)
    /\ \E cfg \in Configs : NewResampler(cfg)

\* A resampler of one source that stays open, with a sink that returns.
HelperNext ==
    \/ AddOneTimeseries
    \/ OneSourceSends
    \/ AdvanceClock
    \/ CallResample
    \/ StartGather
    \/ SinkReturns
    \/ EndTick
    \/ EmptyTick

HelperSpec == HelperInit /\ [][HelperNext]_vars

\* A resampler whose timeseries are added and removed, again and again,
\* while their sources deliver samples, and resample is not running.
RegistryNext ==
    \/ AddTimeseriesReturns
    \/ RemoveTimeseriesReturns
    \/ SourceSends
    \/ SourceStops
    \/ AdvanceClockOfTwo

RegistrySpec == ResamplerInit /\ [][RegistryNext]_vars

\* ------------------------------------------- resampler: upsampling

\* The upsampling scenario: a sample every 5 seconds, resampled every
\* second with the default max_data_age_in_periods of 3, in a buffer of 2
\* samples that grows to 16 at most.
UpsamplingScenario ==
    [input_period_s |-> 5, values |-> {1, 3},
     config |-> ResamplerConfig(1, 3, 2, 16)]

UpsamplingInit ==
    /\ requests_queue = <<>>
    /\ nreq = 0
    /\ pc = "receive"
    /\ cur = Idle
    /\ tasks = {}
    /\ background = {}
    /\ status_calls = <<>>
    /\ results = <<>>
    /\ ConstructedOn(GraphEdges, <<1, 2, 3, 4>>)
    /\ NewResampler(UpsamplingScenario.config)

\* The source delivers the sample that is due, one every input period,
\* stamped with the time it is due at.
PeriodicSourceSends ==
    /\ "a" \in Registered
    /\ rnow = UpsamplingScenario.input_period_s * nsamples
    /\ \E value \in UpsamplingScenario.values :
        resamplers' = [resamplers EXCEPT ![IndexOf("a")] =
                            receive_samples(@, Sample(rnow, "value", value, 1))]
    /\ nsamples' = nsamples + 1
    /\ UNCHANGED <<gvars, removed, returned, requests_queue, nreq, pc, cur, tasks, background,
                   status_calls, results, config, rnow, window_end, rpc,
                   gathered, raised, sent, ticks, added>>

\* A second passes, once the sample and the tick that were due have been
\* delivered and completed: the source and the resampler are on time.
OnTimeClock ==
    /\ rnow < MaxTimeOfUpsampling
    /\ "a" \in Registered
    /\ rpc = "sleep"
    /\ rnow < UpsamplingScenario.input_period_s * nsamples
    /\ rnow < window_end
    /\ rnow' = rnow + 1
    /\ UNCHANGED <<gvars, removed, returned, requests_queue, nreq, pc, cur, tasks, background,
                   status_calls, results, config, window_end, rpc, resamplers,
                   gathered, raised, sent, ticks, added, nsamples>>

\* The resampler of the scenario: the sample and the tick that are due at
\* the same time come in any order.
UpsamplingNext ==
    \/ AddOneTimeseries
    \/ PeriodicSourceSends
    \/ OnTimeClock
    \/ CallResample
    \/ StartGather
    \/ SinkReturns
    \/ EndTick

UpsamplingSpec == UpsamplingInit /\ [][UpsamplingNext]_vars

\* ------------------------------------------- resampler: the buffer

\* The resampling periods and the input periods of the buffers looked at,
\* in seconds: a quarter, a half, one, one and a half, two and five.
ResamplingPeriods ==
    {[num |-> 1, den |-> 4], [num |-> 1, den |-> 1], [num |-> 2, den |-> 1]}

InputPeriods ==
    {[num |-> 1, den |-> 2], [num |-> 1, den |-> 1], [num |-> 3, den |-> 2],
     [num |-> 2, den |-> 1], [num |-> 5, den |-> 1]}

\* The configurations of the buffers looked at: the resampling period is
\* the float num / den.
BufferConfigs ==
    [resampling_period_s : ResamplingPeriods,
     max_data_age_in_periods : {1, 2, 3},
     initial_buffer_len : {2, 3},
     max_buffer_len : {4, 16}]

\* The samples 0 .. n - 1 of a source of the given period, the sample k
\* stamped k * period.num, in units of 1 / period.den seconds.
PeriodicSamples(n, period) ==
    [k \in 1..n |-> Sample((k - 1) * period.num, "value", 1, 1)]

\* The number of samples a helper received when it infers the period: the
\* buffer is full and received_samples is not under resampling_period_s *
\* max_data_age_in_periods.
ReceivedAtInference(cfg) ==
    Max2(cfg.initial_buffer_len,
         Ceil(cfg.resampling_period_s.num * cfg.max_data_age_in_periods,
              cfg.resampling_period_s.den))

\* A helper whose _update_source_sample_period has just set the period of
\* its source, which delivers a sample every input period, at the tick one
\* input period after the last sample; _update_buffer_len is to run.
BufferInit ==
    /\ requests_queue = <<>>
    /\ nreq = 0
    /\ pc = "receive"
    /\ cur = Idle
    /\ tasks = {}
    /\ background = {}
    /\ status_calls = <<>>
    /\ results = <<>>
    /\ ConstructedOn(GraphEdges, <<1, 2, 3, 4>>)
    /\ config \in BufferConfigs
    /\ \E input \in InputPeriods :
        LET received == ReceivedAtInference(config)
        IN  /\ resamplers =
                <<[source |-> "a", sink |-> "first",
                   buffer |-> LastItems(PeriodicSamples(received, input),
                                        config.initial_buffer_len),
                   maxlen |-> config.initial_buffer_len,
                   sampling_start |-> 0,
                   received_samples |-> received,
                   sampling_period_s |-> input,
                   receiving_task |-> "running"]>>
            /\ rnow = received * input.num
            /\ window_end = received * input.num
    /\ rpc = "update_buffer_len"
    /\ gathered = <<>>
    /\ raised = NoError
    /\ sent = [s \in Sources |-> NoSinkCall]
    /\ ticks = 0
    /\ added = {"a"}
    /\ nsamples = 0
    /\ returned = NoCall
    /\ removed = {}

\* _update_buffer_len runs.
UpdateBufferLen ==
    /\ rpc = "update_buffer_len"
    /\ resamplers' = [resamplers EXCEPT ![1] =
            update_buffer_len_of(@, config.resampling_period_s,
                                 config.max_data_age_in_periods,
                                 config.max_buffer_len)]
    /\ rpc' = "resized"
    /\ UNCHANGED <<gvars, removed, returned, requests_queue, nreq, pc, cur, tasks, background,
                   status_calls, results, config, rnow, window_end, gathered,
                   raised, sent, ticks, added, nsamples>>

\* The source delivers its next sample, an input period after the one
\* before.
SourceSendsInPeriod ==
    /\ rpc = "resized"
    /\ nsamples < MaxSamplesResized
    /\ resamplers' = [resamplers EXCEPT ![1] =
            receive_samples(@, Sample(rnow, "value", 1, 1))]
    /\ rnow' = rnow + resamplers[1].sampling_period_s.num
    /\ nsamples' = nsamples + 1
    /\ UNCHANGED <<gvars, removed, returned, requests_queue, nreq, pc, cur, tasks, background,
                   status_calls, results, config, window_end, rpc, gathered,
                   raised, sent, ticks, added>>

BufferNext == UpdateBufferLen \/ SourceSendsInPeriod

BufferSpec == BufferInit /\ [][BufferNext]_vars

\* ----------------------------------------------- resampler: the config

\* The values the fields of a ResamplerConfig are given, around the limits
\* __post_init__ tests them against.
ConfigValues ==
    [resampling_period_s : {-1, 0, 1, 2},
     max_data_age_in_periods : {0, 1, 2},
     initial_buffer_len : {0, 1, 2, 3},
     warn_buffer_len : {0, 1, 2},
     max_buffer_len : {1, 2, 3}]

\* ResamplerConfig.__post_init__: the ValueError it raises, or None.
post_init(cfg) ==
    IF cfg.resampling_period_s < 0 THEN "ValueError"
    ELSE IF cfg.max_data_age_in_periods < 1 THEN "ValueError"
    ELSE IF cfg.warn_buffer_len < 1 THEN "ValueError"
    ELSE IF cfg.max_buffer_len <= cfg.warn_buffer_len THEN "ValueError"
    ELSE IF cfg.initial_buffer_len < 1 THEN "ValueError"
    ELSE IF cfg.initial_buffer_len > cfg.max_buffer_len THEN "ValueError"
    ELSE "None"

\* ResamplerConfig(...) is called with any values: __post_init__ is to run.
ConfigInit ==
    /\ requests_queue = <<>>
    /\ nreq = 0
    /\ pc = "receive"
    /\ cur = Idle
    /\ tasks = {}
    /\ background = {}
    /\ status_calls = <<>>
    /\ results = <<>>
    /\ ConstructedOn(GraphEdges, <<1, 2, 3, 4>>)
    /\ config \in ConfigValues
    /\ rnow = 0
    /\ window_end = 0
    /\ rpc = "post_init"
    /\ resamplers = <<>>
    /\ gathered = <<>>
    /\ raised = NoError
    /\ sent = [s \in Sources |-> NoSinkCall]
    /\ ticks = 0
    /\ added = {}
    /\ nsamples = 0
    /\ returned = NoCall
    /\ removed = {}

\* __post_init__ runs: the construction raises ValueError, or succeeds.
PostInit ==
    /\ rpc = "post_init"
    /\ raised' = [type |-> post_init(config), exceptions |-> {}]
    /\ rpc' = "constructed"
    /\ UNCHANGED <<gvars, removed, returned, requests_queue, nreq, pc, cur, tasks, background,
                   status_calls, results, config, rnow, window_end, resamplers,
                   gathered, sent, ticks, added, nsamples>>

ConfigSpec == ConfigInit /\ [][PostInit]_vars

\* ------------------------------------------------------------------ claims

\* The results, accepted by the result channel, whose request has id k.
ResultsFor(k) == {n \in DOMAIN results : results[n].request.id = k}

\* The request with id k was taken from the request channel by _run.
Received(k) ==
    /\ nreq >= k
    /\ \A n \in DOMAIN requests_queue : requests_queue[n].id # k

\* Every Result that exists: accepted by the result channel, held by a send
\* task of a gather, or being sent by _run itself.
AllResults ==
    {results[n] : n \in DOMAIN results}
    \cup {t.response : t \in {x \in background : x.kind = "send"}}
    \cup (IF pc = "send" THEN {cur.response} ELSE {})

\* The Success and PartialFailure results.
DispatchResults == {r \in AllResults : r.type \in {"Success", "PartialFailure"}}

\* The step in which _run builds the response of a dispatched request.
RespondStep == pc \in {"wait", "cancel"} /\ pc' = "receive"

\* The response built in a RespondStep.
NewResponses ==
    {t.response : t \in {x \in background' \ background : x.kind = "send"}}

\* The inverters whose set_power call of the current request raised an
\* AioRpcError (OUT_OF_RANGE or another code) or was cancelled at the timeout.
FailedInverters ==
    {t.inverter_id :
        t \in {x \in CurTasks : x.state \in {"out_of_range", "rpc_error", "cancelled"}}}

\* C1: every request the main loop receives gets exactly one Result whose
\* request field is that request: never two, none before the request was
\* received, and eventually one, for any mix of set_power outcomes (return,
\* RPC error, hang past the timeout).
C1_ExactlyOneResult ==
    /\ [](\A k \in 1..MaxRequests :
            /\ Cardinality(ResultsFor(k)) <= 1
            /\ ResultsFor(k) # {} => Received(k))
    /\ \A k \in 1..MaxRequests :
            Received(k) ~> (Cardinality(ResultsFor(k)) = 1)

\* Two requests were answered, one with a PartialFailure and one with an
\* Error.
C1_Witness ==
    /\ Len(results) = 2
    /\ results[1].request.id # results[2].request.id
    /\ \E n \in DOMAIN results : results[n].type = "PartialFailure"
    /\ \E n \in DOMAIN results : results[n].type = "Error"

\* C2: requests are processed one at a time in arrival order, and a request
\* is not processed before the result channel accepted the Result of every
\* earlier request.
C2_NextRequestWaitsForResult ==
    /\ cur.request.id # 0 =>
        \A k \in 1..(cur.request.id - 1) : ResultsFor(k) # {}
    /\ \A n \in DOMAIN requests_queue : requests_queue[n].id > cur.request.id

\* C3: succeeded_power + excess_power = request.power in every Success, and
\* succeeded_power + failed_power + excess_power = request.power in every
\* PartialFailure.
C3_PowerAccounting ==
    \A r \in AllResults :
        /\ r.type = "Success" =>
            r.succeeded_power + r.excess_power = r.request.power
        /\ r.type = "PartialFailure" =>
            r.succeeded_power + r.failed_power + r.excess_power = r.request.power

\* A PartialFailure with power that failed, power that succeeded, and a
\* Success with excess power, were sent.
C3_Witness ==
    /\ \E r \in AllResults :
        /\ r.type = "PartialFailure"
        /\ r.failed_power # 0
        /\ r.succeeded_power # 0
    /\ \E r \in AllResults : r.type = "Success" /\ r.excess_power # 0

\* C4: the Result of a dispatched request is a Success if no set_power call
\* failed and a PartialFailure otherwise, also when every call failed; a
\* Success has no failed batteries and a PartialFailure has some.
C4_SuccessIffNoFailure ==
    [][RespondStep =>
        /\ NewResponses # {}
        /\ \A r \in NewResponses :
            /\ r.request = cur.request
            /\ FailedInverters = {} => r.type = "Success"
            /\ FailedInverters # {} => r.type = "PartialFailure"
            /\ r.type = "Success" => r.failed_batteries = {}
            /\ r.type = "PartialFailure" => r.failed_batteries # {}]_vars

\* A PartialFailure in which no battery succeeded was sent.
C4_Witness ==
    \E n \in DOMAIN results :
        /\ results[n].type = "PartialFailure"
        /\ results[n].succeeded_batteries = {}
        /\ results[n].failed_batteries = {1, 2, 3}

\* C5: the watts commanded to every inverter whose set_power call raised an
\* AioRpcError or was cancelled at the timeout are in failed_power, and the
\* batteries of that inverter are in failed_batteries of the Result.
C5_FailedInvertersCounted ==
    [][RespondStep =>
        \A r \in NewResponses :
            /\ r.failed_power = SumOver(cur.distribution, FailedInverters)
            /\ \A i \in FailedInverters : inv_bats_map[i] \subseteq r.failed_batteries]_vars

\* A PartialFailure for the 200 W of inverter 12 and its batteries 2 and 3,
\* while the 100 W of inverter 11 succeeded.
C5_Witness ==
    \E n \in DOMAIN results :
        /\ results[n].type = "PartialFailure"
        /\ results[n].failed_power = 200
        /\ results[n].failed_batteries = {2, 3}
        /\ results[n].succeeded_power = 100

\* C6: after the timeout every pending set_power call is cancelled, and a
\* set_power task runs only while _run waits for the tasks of its request:
\* none runs once the Result of the request exists or another request is
\* processed.
C6_NoTaskOutlivesRequest ==
    /\ pc = "cancel" => \A t \in CurTasks : t.state # "running"
    /\ \A t \in tasks :
        /\ ~Finished(t) =>
            /\ t.req = cur.request.id
            /\ pc \in {"wait", "cancel"}
            /\ \A r \in AllResults : r.request.id # t.req
        /\ t.req = cur.request.id

\* The timeout expired, one task was cancelled and has ended, the other one
\* had returned before.
C6_Witness ==
    /\ pc = "cancel"
    /\ \A t \in CurTasks : Finished(t)
    /\ \E t \in CurTasks : t.state = "cancelled"
    /\ \E t \in CurTasks : t.state = "ok"

\* The update_status calls, done or held by a task of a gather, for the
\* request with id k.
StatusCallsFor(k) ==
    {n \in DOMAIN status_calls : status_calls[n].request.id = k}

\* C7: update_status is called exactly once for every dispatched request,
\* with the succeeded and failed batteries of the Result of that request;
\* the batteries of an inverter whose set_power call was cancelled at the
\* timeout are in the failed set.
C7_StatusUpdatedOnce ==
    /\ [](\A k \in 1..MaxRequests :
            /\ Cardinality(StatusCallsFor(k)) <= 1
            /\ \A n \in StatusCallsFor(k) : \A r \in AllResults :
                r.request.id = k =>
                    /\ r.type \in {"Success", "PartialFailure"}
                    /\ status_calls[n].succeeded = r.succeeded_batteries
                    /\ status_calls[n].failed = r.failed_batteries)
    /\ [][RespondStep =>
            \E t \in background' \ background :
                /\ t.kind = "update_status"
                /\ t.response \in NewResponses
                /\ \A x \in CurTasks : x.state = "cancelled" =>
                    inv_bats_map[x.inverter_id] \subseteq t.response.failed_batteries]_vars
    /\ \A k \in 1..MaxRequests :
            (cur.request.id = k /\ pc = "wait")
                ~> (Cardinality(StatusCallsFor(k)) = 1)

\* update_status was called with the batteries 2 and 3 as failed and
\* battery 1 as succeeded, and the PartialFailure with these sets was sent.
C7_Witness ==
    /\ \E n \in DOMAIN status_calls :
        /\ status_calls[n].failed = {2, 3}
        /\ status_calls[n].succeeded = {1}
    /\ \E n \in DOMAIN results :
        /\ results[n].type = "PartialFailure"
        /\ results[n].failed_batteries = {2, 3}

\* C8: a requested battery the status tracker does not report as working
\* is in no pair of the snapshot and in neither succeeded_batteries nor
\* failed_batteries of the Result, also when it shares an inverter with a
\* working battery.
C8_OnlyWorkingBatteries ==
    [][/\ (pc = "receive" /\ pc' \in {"wait", "send"}) =>
            \A p \in cur'.pairs_data :
                p.battery.component_ids \subseteq cur'.working_batteries
       /\ RespondStep =>
            \A r \in NewResponses :
                (r.succeeded_batteries \cup r.failed_batteries)
                    \subseteq cur.working_batteries]_vars

\* C9: a request with power zero is never answered with OutOfBounds,
\* whatever the bounds and adjust_power are.
C9_ZeroPowerNeverOutOfBounds ==
    \A r \in AllResults : r.type = "OutOfBounds" => r.request.power # 0

\* Two requests with power zero, one with adjust_power and one without, got
\* past the check and were answered with Success.
C9_Witness ==
    /\ Len(results) = 2
    /\ \A n \in DOMAIN results :
        /\ results[n].request.power = 0
        /\ results[n].type = "Success"
    /\ results[1].request.adjust_power
    /\ ~results[2].request.adjust_power

\* C10: without adjust_power and with a power that is not zero,
\* _check_request answers OutOfBounds, with the bounds of the snapshot, if
\* and only if the power is outside [inclusion_lower, exclusion_lower] and
\* [exclusion_upper, inclusion_upper].
C10_StrictCheck ==
    LET bounds == get_bounds(cur.pairs_data)
        power == cur.request.power
        allowed == (bounds.inclusion_lower .. bounds.exclusion_lower)
                   \cup (bounds.exclusion_upper .. bounds.inclusion_upper)
    IN  (pc = "checked" /\ ~cur.request.adjust_power /\ power # 0) =>
            IF power \in allowed
            THEN cur.response = NoResult
            ELSE /\ cur.response.type = "OutOfBounds"
                 /\ cur.response.request = cur.request
                 /\ cur.response.bounds = bounds

\* +30 W against the inclusion bounds [-1000, 1000] and the exclusion bounds
\* [-50, 50] was answered with OutOfBounds.
C10_Witness ==
    /\ pc = "checked"
    /\ cur.request.power = 30
    /\ ~cur.request.adjust_power
    /\ cur.response.type = "OutOfBounds"
    /\ cur.response.bounds = PowerBounds(-1000, -50, 50, 1000)

\* C11: with adjust_power and a power that is not zero, _check_request
\* answers OutOfBounds if and only if exclusion_lower < power <
\* exclusion_upper; a power on an exclusion bound or beyond an inclusion
\* bound is forwarded.
C11_AdjustCheck ==
    LET bounds == get_bounds(cur.pairs_data)
        power == cur.request.power
        deadband == (bounds.exclusion_lower + 1) .. (bounds.exclusion_upper - 1)
    IN  (pc = "checked" /\ cur.request.adjust_power /\ power # 0) =>
            IF power \in deadband
            THEN /\ cur.response.type = "OutOfBounds"
                 /\ cur.response.request = cur.request
            ELSE cur.response = NoResult

\* A power beyond the inclusion bounds [-1000, 1000] was forwarded with
\* adjust_power.
C11_Witness ==
    /\ pc = "checked"
    /\ cur.request.adjust_power
    /\ cur.request.power = 1001
    /\ get_bounds(cur.pairs_data) = PowerBounds(-1000, -50, 50, 1000)
    /\ cur.response = NoResult

\* The requests C12 is about: an empty battery set, or a battery without
\* receiver.
BadBatteries(batteries) ==
    batteries = {} \/ ~(batteries \subseteq battery_receivers)

\* C12: a request with an empty battery set, with a battery that has no
\* receiver, or with no usable data is answered with Error and starts no
\* set_power call, and once the Error is sent _run is back at receiving
\* requests.
C12_InputErrorAnswered ==
    [][/\ (pc = "receive" /\ pc' # "receive"
            /\ (BadBatteries(cur'.request.batteries) \/ cur'.pairs_data = {})) =>
                /\ pc' = "send"
                /\ cur'.response.type = "Error"
                /\ cur'.response.request = cur'.request
                /\ tasks' = tasks
       /\ (pc = "send" /\ pc' # "send") =>
                /\ pc' = "receive"
                /\ results' = Append(results, cur.response)]_vars

\* A request naming a battery without receiver got its Error, and the next
\* request is being dispatched.
C12_Witness ==
    /\ Len(results) = 1
    /\ results[1].type = "Error"
    /\ results[1].request.id = 1
    /\ results[1].request.batteries = {1, 4}
    /\ cur.request.id = 2
    /\ pc = "wait"

\* The requests C13 is about: batteries with receivers whose inverters are
\* connected to batteries that were not requested.
ExtraBatteries(batteries) ==
    /\ batteries # {}
    /\ batteries \subseteq DOMAIN bat_invs_map
    /\ get_all_from_map(inv_bats_map, get_all_from_map(bat_invs_map, batteries))
            # batteries

\* C13 as stated: a request whose inverters are connected to batteries
\* that were not requested is not answered with an Error because of them.
C13_ExtraBatteriesProcessed ==
    \A r \in AllResults :
        ExtraBatteries(r.request.batteries) =>
            ~(r.type = "Error" /\ r.msg = "KeyError")

\* C13, amended: a request whose inverters are connected to batteries that
\* were not requested is answered with the Error of the KeyError that
\* _get_components_data raises, and starts no set_power call.
C13_ExtraBatteriesRejected ==
    [][(pc = "receive" /\ pc' # "receive"
            /\ ExtraBatteries(cur'.request.batteries)) =>
                /\ pc' = "send"
                /\ cur'.response = Error(cur'.request, "KeyError")
                /\ cur'.pairs_data = {}
                /\ tasks' = tasks]_vars

\* The request for battery 2 alone, which shares inverter 12 with battery
\* 3, got an Error and no set_power call was made.
C13_Witness ==
    /\ Len(results) >= 1
    /\ results[1].request.batteries = {2}
    /\ results[1].type = "Error"
    /\ tasks = {}
    /\ status_calls = <<>>

\* C14: when two requests for the same battery set wait to be processed,
\* the older one is not dispatched.
C14_OlderRequestIgnored ==
    [][(pc = "receive" /\ pc' = "wait") =>
            \A n \in DOMAIN requests_queue' :
                requests_queue'[n].batteries # cur'.request.batteries]_vars

\* The helper of a registered source.
HelperOf(source) == resamplers[IndexOf(source)]

\* C15: the samples given to the sink of a source have timestamps that
\* grow by exactly resampling_period_s from one to the next, however late
\* resample wakes up and whatever the other sources do.
C15_ExactProgression ==
    [][\A source \in Sources :
        (sent'[source].n = sent[source].n + 1 /\ sent[source].n >= 1) =>
            sent'[source].sample.timestamp =
                sent[source].sample.timestamp + config.resampling_period_s]_vars

\* The second tick, due at 2, runs at 3: the sink of a got the samples of
\* both ticks, while the source b raised after the first one.
C15_Witness ==
    /\ ticks = 1
    /\ rnow = 3
    /\ sent["a"].n = 2
    /\ sent["a"].sample.timestamp = 2
    /\ "b" \in Registered
    /\ HelperOf("b").receiving_task = "ConnectionError"
    /\ sent["b"].n = 1

\* C16: after k ticks window_end is its initial value plus k times
\* resampling_period_s, whatever the wall clock is and whether helpers
\* raised or not.
C16_WindowEndAdvances ==
    window_end = (0 + config.resampling_period_s)
                    + ticks * config.resampling_period_s

\* Three ticks were completed late, the last one raised ResamplingError.
C16_Witness ==
    /\ ticks = 3
    /\ rnow = 3
    /\ window_end = 4
    /\ raised.type = "ResamplingError"

\* C17: a sample with value None or NaN changes nothing in the helper; a
\* sample that does is a float appended to the buffer, counted once, and
\* sets sampling_start only if it was None; the buffer and the input of
\* the resampling function hold floats only, and the function is not
\* called with an empty input.
C17_NoneAndNaNDropped ==
    [][/\ \A i \in DOMAIN resamplers' : \A n \in DOMAIN resamplers'[i].buffer :
            resamplers'[i].buffer[n].kind = "value"
       /\ \A i \in DOMAIN gathered' :
            /\ gathered'[i].called => gathered'[i].input # <<>>
            /\ \A n \in DOMAIN gathered'[i].input :
                    gathered'[i].input[n].kind = "value"
       /\ (nsamples' = nsamples + 1 /\ resamplers' # resamplers) =>
            \E i \in DOMAIN resamplers :
                LET old == resamplers[i]
                    new == resamplers'[i]
                IN  /\ resamplers' = [resamplers EXCEPT ![i] = new]
                    /\ new.buffer # <<>>
                    /\ new.buffer[Len(new.buffer)].kind = "value"
                    /\ new.buffer[Len(new.buffer)].timestamp = rnow
                    /\ new.received_samples = old.received_samples + 1
                    /\ new.sampling_start =
                        IF old.sampling_start = -1 THEN rnow
                        ELSE old.sampling_start]_vars

\* Three samples were delivered, one of them a float, and the resampling
\* function was called with it.
C17_Witness ==
    /\ nsamples = 3
    /\ Len(resamplers) = 1
    /\ resamplers[1].received_samples = 1
    /\ Len(gathered) = 1
    /\ gathered[1].called
    /\ Len(gathered[1].input) = 1

\* The results of the gather that are exceptions, with their sources.
RaisedInTick ==
    {<<gathered[i].source, gathered[i].result>> :
        i \in {j \in DOMAIN gathered : gathered[j].result # "None"}}

\* No timeseries was added or removed since the gather of the tick began.
SameHelpersAsGathered ==
    /\ Len(resamplers) = Len(gathered)
    /\ \A i \in DOMAIN resamplers : resamplers[i].source = gathered[i].source

C19_FinishedSourceRaises ==
    [][/\ (rpc = "sleep" /\ rpc' = "gather") =>
            \A i \in DOMAIN resamplers :
                resamplers[i].receiving_task # "running" =>
                    /\ gathered'[i].source = resamplers[i].source
                    /\ gathered'[i].state = "done"
                    /\ gathered'[i].result =
                        IF resamplers[i].receiving_task = "stopped"
                        THEN "SourceStoppedError"
                        ELSE resamplers[i].receiving_task
       /\ \A source \in Sources :
            sent'[source] # sent[source] =>
                \E i \in DOMAIN gathered :
                    /\ gathered[i].source = source
                    /\ gathered[i].state = "sending"
                    /\ gathered[i].result = "None"]_vars

\* The sink of a was called in the first tick only: its source ended, and
\* the second and the third tick raised.
C19_Witness ==
    /\ ticks = 3
    /\ "a" \in Registered
    /\ HelperOf("a").receiving_task = "stopped"
    /\ sent["a"].n = 1
    /\ sent["a"].sample.timestamp = 1
    /\ raised.type = "ResamplingError"
    /\ <<"a", "SourceStoppedError">> \in raised.exceptions

\* C20: a tick of a source that is open sends a sample and raises nothing,
\* and the sample is None when the buffer is empty or when its last sample
\* is max(resampling period, input period) * max_data_age_in_periods old or
\* older.
C20_NoneAfterSilence ==
    [][/\ (rpc = "sleep" /\ rpc' = "gather") =>
            \A i \in DOMAIN resamplers :
                LET old == resamplers[i]
                    new == resamplers'[i]
                    last == old.buffer[Len(old.buffer)].timestamp
                    age == window_end - last
                    periods == config.max_data_age_in_periods
                    Silent ==
                        \/ old.buffer = <<>>
                        \/ IF new.sampling_period_s = NoPeriod
                           THEN age >= config.resampling_period_s * periods
                           ELSE /\ age >= config.resampling_period_s * periods
                                /\ age * new.sampling_period_s.den
                                    >= new.sampling_period_s.num * periods
                IN  old.receiving_task = "running" =>
                        /\ gathered'[i].state = "sending"
                        /\ gathered'[i].sample.timestamp = window_end
                        /\ Silent => gathered'[i].sample.kind = "None"
       /\ (rpc = "gather" /\ rpc' # "gather") =>
            /\ rpc' = "sleep"
            /\ raised' = NoError
            /\ \A i \in DOMAIN gathered :
                sent[gathered[i].source].sample = gathered[i].sample]_vars

\* The source delivered a float and then nothing; the sink got the samples
\* of three ticks, the last one None.
C20_Witness ==
    /\ Len(resamplers) = 1
    /\ resamplers[1].received_samples = 1
    /\ sent["a"].n = 3
    /\ sent["a"].sample.kind = "None"
    /\ sent["a"].sample.timestamp = 6

\* The helpers of the sources other than source, in the order of _resamplers.
HelpersButOf(source) ==
    SelectSeq(resamplers, LAMBDA helper : helper.source # source)

\* C21: add_timeseries with a registered source returns False and leaves
\* _resamplers (the helper, its buffer, its source properties, its sink) and
\* what the sinks got as they are; remove_timeseries with a source that is
\* not registered returns False and leaves _resamplers as it is; otherwise
\* each returns True, and adds a new helper of that source with that sink,
\* or removes the helper of that source, and touches no other helper.
C21_AddRemoveReturn ==
    [][returned' # returned =>
        LET source == returned'.source
        IN  /\ returned'.call = "add_timeseries" =>
                IF source \in Registered
                THEN /\ returned'.value = FALSE
                     /\ resamplers' = resamplers
                     /\ sent' = sent
                ELSE /\ returned'.value = TRUE
                     /\ Registered' = Registered \cup {source}
                     /\ Len(resamplers') = Len(resamplers) + 1
                     /\ SubSeq(resamplers', 1, Len(resamplers)) = resamplers
                     /\ LET new == resamplers'[Len(resamplers')]
                        IN  /\ new.source = source
                            /\ new.sink = returned'.sink
                            /\ new.buffer = <<>>
                            /\ new.received_samples = 0
                            /\ new.receiving_task = "running"
            /\ returned'.call = "remove_timeseries" =>
                IF source \notin Registered
                THEN /\ returned'.value = FALSE
                     /\ resamplers' = resamplers
                ELSE /\ returned'.value = TRUE
                     /\ Registered' = Registered \ {source}
                     /\ Len(resamplers') = Len(resamplers) - 1
                     /\ resamplers' = HelpersButOf(source)]_vars

\* add_timeseries of the registered source a with another sink returned
\* False: the helper of a has the sample it received and its first sink.
C21_Witness ==
    /\ returned = [call |-> "add_timeseries", source |-> "a",
                   sink |-> "second", value |-> FALSE]
    /\ Registered = {"a", "b"}
    /\ HelperOf("a").sink = "first"
    /\ HelperOf("a").received_samples = 1
    /\ Len(HelperOf("a").buffer) = 1

\* C22: the construction of a ResamplerConfig succeeds if and only if
\* resampling_period_s > 0, max_data_age_in_periods >= 1,
\* initial_buffer_len >= 1, warn_buffer_len >= 1,
\* max_buffer_len > warn_buffer_len and initial_buffer_len <= max_buffer_len;
\* it raises ValueError otherwise, also for resampling_period_s = 0.
C22_ConfigValidated ==
    rpc = "constructed" =>
        (raised.type = "None" <=>
            /\ config.resampling_period_s > 0
            /\ config.max_data_age_in_periods >= 1
            /\ config.initial_buffer_len >= 1
            /\ config.warn_buffer_len >= 1
            /\ config.max_buffer_len > config.warn_buffer_len
            /\ config.initial_buffer_len <= config.max_buffer_len)

\* The tick of the upsampling scenario that computes a sample, with the
\* input period of the source known after it.
SteadyTick ==
    /\ rpc = "sleep" /\ rpc' = "gather"
    /\ resamplers'[1].sampling_period_s # NoPeriod

\* C23: in the upsampling scenario, once the input period is known, the
\* relevant samples of every tick include the most recent sample received
\* and the value of the new sample is the value of that sample.
C23_EmitsMostRecent ==
    [][SteadyTick =>
        LET buffer == resamplers'[1].buffer
            latest == buffer[Len(buffer)]
            input == gathered'[1].input
            new == gathered'[1].sample
        IN  /\ input # <<>>
            /\ input[Len(input)] = latest
            /\ new.kind = "value"
            /\ new.num = latest.num * new.den]_vars

\* C23, as the code has it: in the upsampling scenario, once the input
\* period is known, the relevant samples of every tick are the most recent
\* sample received and up to two samples before it, and the value of the
\* new sample is their average.
C23_EmitsAverageOfWindow ==
    [][SteadyTick =>
        LET buffer == resamplers'[1].buffer
            input == gathered'[1].input
            new == gathered'[1].sample
        IN  /\ Len(input) \in {1, 2, 3}
            /\ input = LastItems(buffer, Len(input))
            /\ new.kind = "value"
            /\ new.timestamp = window_end
            /\ new.num * Len(input) = SumNum(input) * new.den]_vars

\* A tick at 17 seconds: the samples of 10 and 15 seconds, 1 and 3, are
\* relevant and the new sample is 2.
C23_Witness ==
    /\ rpc = "gather"
    /\ window_end = 17
    /\ resamplers[1].sampling_period_s # NoPeriod
    /\ Len(gathered[1].input) = 2
    /\ gathered[1].input[1].num = 1
    /\ gathered[1].input[2].num = 3
    /\ gathered[1].input[2].timestamp = 15
    /\ gathered[1].sample.num = 2
    /\ gathered[1].sample.den = 1

\* The timestamps of the samples received since the buffer was resized, and
\* the timestamp of the last one, in units of 1 / den seconds of the input
\* period.
ReceivedSinceResize ==
    {window_end + k * resamplers[1].sampling_period_s.num : k \in 0..(nsamples - 1)}

LastReceived == window_end + (nsamples - 1) * resamplers[1].sampling_period_s.num

\* A sample stamped timestamp is relevant at t: it is not after t and
\* younger than max(resampling period, input period) *
\* max_data_age_in_periods.
RelevantAt(timestamp, t) ==
    LET input == resamplers[1].sampling_period_s
        period == config.resampling_period_s
        age == t - timestamp
    IN  /\ age >= 0
        /\ IF input.num * period.den > period.num * input.den
           THEN age < input.num * config.max_data_age_in_periods
           ELSE age * period.den
                    < period.num * config.max_data_age_in_periods * input.den

\* C24: once the period of the source is known and the buffer resized to
\* less than max_buffer_len, every sample received since, from a source
\* that keeps that period, is in the buffer as long as it is relevant at
\* the tick that follows the last sample.
C24_RelevantSamplesKept ==
    (/\ rpc = "resized"
     /\ resamplers[1].maxlen < config.max_buffer_len) =>
        \A timestamp \in ReceivedSinceResize :
            RelevantAt(timestamp, LastReceived) =>
                \E i \in DOMAIN resamplers[1].buffer :
                    resamplers[1].buffer[i].timestamp = timestamp

InverterSum(pair, bound) ==
    SumOver([i \in pair.inverter_ids |-> pair.inverter[i][bound]],
            pair.inverter_ids)

\* The smallest and the biggest of a set of numbers that is not empty.
MinOf(S) == CHOOSE x \in S : \A y \in S : x <= y
MaxOf(S) == CHOOSE x \in S : \A y \in S : x >= y

\* C27: for a snapshot that is not empty, the bounds of _get_bounds are:
\* inclusion_lower, the sum over the pairs of max(battery, sum of the
\* inverters); inclusion_upper, the sum over the pairs of min(battery, sum
\* of the inverters); exclusion_lower, the minimum over the pairs of
\* min(battery, sum of the inverters); exclusion_upper, the maximum over the
\* pairs of max(battery, sum of the inverters).
C27_BoundsPerPair ==
    LET pairs == cur.pairs_data
        bounds == cur.response.bounds
    IN  (pc = "checked" /\ cur.response.type = "OutOfBounds") =>
            /\ bounds.inclusion_lower =
                SumOver([p \in pairs |->
                            Max2(p.battery.power_bounds.inclusion_lower,
                                 InverterSum(p, "inclusion_lower"))], pairs)
            /\ bounds.inclusion_upper =
                SumOver([p \in pairs |->
                            Min2(p.battery.power_bounds.inclusion_upper,
                                 InverterSum(p, "inclusion_upper"))], pairs)
            /\ bounds.exclusion_lower =
                MinOf({Min2(p.battery.power_bounds.exclusion_lower,
                            InverterSum(p, "exclusion_lower")) : p \in pairs})
            /\ bounds.exclusion_upper =
                MaxOf({Max2(p.battery.power_bounds.exclusion_upper,
                            InverterSum(p, "exclusion_upper")) : p \in pairs})

\* The inverters whose set_power call of the current request returned.
SucceededInverters ==
    {t.inverter_id : t \in {x \in CurTasks : x.state = "ok"}}

\* C28: the succeeded_power of a Success or PartialFailure is the sum of the
\* watts commanded to the inverters whose set_power call returned without
\* exception, 0 when every call failed, whatever the distribution is.
C28_SucceededPower ==
    [][RespondStep =>
        \A r \in NewResponses :
            /\ r.type \in {"Success", "PartialFailure"}
            /\ r.succeeded_power = SumOver(cur.distribution, SucceededInverters)
            /\ SucceededInverters = {} => r.succeeded_power = 0]_vars

\* 300 W were asked for twice: every call of one request failed, hence a
\* succeeded_power of 0 W, and every call of the other returned, hence 300 W.
C28_Witness ==
    /\ \E n \in DOMAIN results :
        /\ results[n].type = "PartialFailure"
        /\ results[n].succeeded_power = 0
        /\ results[n].failed_power = 300
    /\ \E n \in DOMAIN results :
        /\ results[n].type = "Success"
        /\ results[n].succeeded_power = 300

\* C29: the result channel gets the results in the order their requests
\* were received in, whatever the kind of the results.
C29_ResultsInRequestOrder ==
    \A m, n \in DOMAIN results :
        m < n => results[m].request.id < results[n].request.id

\* The requests _run answered, or is about to answer, with an Error or an
\* OutOfBounds result.
RefusedRequests ==
    {results[n].request.id :
        n \in {m \in DOMAIN results : results[m].type \in {"Error", "OutOfBounds"}}}
    \cup (IF pc = "send" THEN {cur.request.id} ELSE {})

\* C30: a request answered with Error or OutOfBounds has no set_power call
\* (running, finished or cancelled), no update_status call scheduled by a
\* gather and no update_status call that ran.
C30_RefusedRequestHasNoEffect ==
    \A id \in RefusedRequests :
        /\ \A t \in tasks : t.req # id
        /\ \A b \in background : b.response.request.id # id
        /\ \A k \in DOMAIN status_calls : status_calls[k].request.id # id

\* A request was refused with OutOfBounds and sent, while the other request
\* had its set_power calls and its update_status call.
C30_Witness ==
    \E n \in DOMAIN results, k \in DOMAIN status_calls :
        /\ results[n].type = "OutOfBounds"
        /\ status_calls[k].request.id # results[n].request.id
        /\ status_calls[k].succeeded # {}

\* C31: the pairs of a snapshot are a partition: the battery sets of two
\* pairs are disjoint, and so are their inverter sets.
C31_SnapshotIsPartition ==
    \A p, q \in cur.pairs_data :
        p # q => /\ p.battery.component_ids \cap q.battery.component_ids = {}
                 /\ p.inverter_ids \cap q.inverter_ids = {}

\* C32: the inverters of every pair of a snapshot are all the inverters
\* connected to a battery of the pair, whichever battery next(iter(...))
\* gave.
C32_PairHasAllInverters ==
    \A p \in cur.pairs_data :
        p.inverter_ids =
            UNION {predecessors(component_graph, b) : b \in p.battery.component_ids}

\* The inverters connected to a battery of the given set.
InvertersOf(battery_ids) ==
    UNION {predecessors(component_graph, b) : b \in battery_ids}

\* Every battery of the set is connected to every inverter of the set.
SameInverters(battery_ids) ==
    \A b \in battery_ids :
        predecessors(component_graph, b) = InvertersOf(battery_ids)

\* A battery or an inverter of the set sent nothing yet, or sent NaN in a
\* crucial metric.
HasBadMember(battery_ids) ==
    \E d \in battery_ids \cup InvertersOf(battery_ids) : ~Usable(peeked[d])

C34_AggregateBoundsOrdered ==
    pc = "bounds" => Ordered(cur.response.bounds)

\* The batteries of the component graph that have the given inverter.
BatteriesOf(inverter) ==
    {b \in Batteries : inverter \in predecessors(component_graph, b)}

\* C40: the maps of _get_battery_inverter_mappings: inv_invs[I] is the
\* union of bat_invs[B] over the batteries B of I, a set of inverters;
\* inv_bats[I] is the set of the batteries of I; a battery without an
\* inverter is no key and no member of a value of any map.
C40_TopologyIndex ==
    LET without == {b \in Batteries : predecessors(component_graph, b) = {}}
    IN  /\ \A i \in DOMAIN maps.inv_invs :
            /\ maps.inv_invs[i] = UNION {maps.bat_invs[b] : b \in BatteriesOf(i)}
            /\ maps.inv_invs[i] \subseteq Inverters
        /\ \A i \in DOMAIN maps.inv_bats : maps.inv_bats[i] = BatteriesOf(i)
        /\ \A b \in without :
            /\ b \notin DOMAIN maps.bat_invs
            /\ b \notin DOMAIN maps.bat_bats
            /\ \A k \in DOMAIN maps.bat_bats : b \notin maps.bat_bats[k]
            /\ \A k \in DOMAIN maps.inv_bats : b \notin maps.inv_bats[k]
            /\ \A k \in DOMAIN maps.inv_invs : b \notin maps.inv_invs[k]

\* The step of a tick that runs helper.resample(window_end) of every helper.
GatherStep == rpc = "sleep" /\ rpc' = "gather"

\* Whether a sample stamped timestamp is in the window of the tick t of a
\* helper: min_relevant < timestamp <= t, with min_relevant = t -
\* max(resampling period, input period) * max_data_age_in_periods and the
\* resampling period for an input period that is not known.
InWindow(helper, timestamp, t) ==
    LET input == helper.sampling_period_s
        resampling == config.resampling_period_s
        age == config.max_data_age_in_periods
    IN  /\ timestamp <= t
        /\ IF input = NoPeriod \/ input.num <= resampling * input.den
           THEN t - timestamp < resampling * age
           ELSE (t - timestamp) * input.den < input.num * age

C36_InferredOnce ==
    [][\A i \in DOMAIN resamplers \cap DOMAIN resamplers' :
        LET old == resamplers[i]
            new == resamplers'[i]
        IN  /\ old.sampling_period_s # NoPeriod =>
                /\ new.sampling_period_s = old.sampling_period_s
                /\ new.maxlen = old.maxlen
            /\ (old.sampling_period_s = NoPeriod /\ new.sampling_period_s # NoPeriod) =>
                /\ GatherStep
                /\ old.sampling_start # -1
                /\ old.received_samples
                    >= config.resampling_period_s * config.max_data_age_in_periods
                /\ Len(old.buffer) = old.maxlen
                /\ window_end > old.sampling_start
                /\ new.sampling_period_s.num * old.received_samples
                    = (window_end - old.sampling_start) * new.sampling_period_s.den
            /\ new.maxlen # old.maxlen =>
                old.sampling_period_s = NoPeriod /\ new.sampling_period_s # NoPeriod]_vars

\* The input period is known, samples were received since it was inferred,
\* and a later tick is running with the buffer full again.
C36_Witness ==
    /\ rpc = "gather"
    /\ Len(resamplers) = 1
    /\ resamplers[1].sampling_period_s # NoPeriod
    /\ resamplers[1].received_samples > resamplers[1].sampling_period_s.den
    /\ window_end > resamplers[1].sampling_start + resamplers[1].sampling_period_s.num
    /\ Len(resamplers[1].buffer) = resamplers[1].maxlen

\* The step that runs _update_buffer_len after the period was inferred.
ResizeStep == rpc = "update_buffer_len" /\ rpc' = "resized"

\* The capacity stated for an input period and a configuration: the input
\* period times max_data_age_in_periods when the input period is the bigger
\* one (or the equal one, with or_equal), else the resampling period over
\* the input period times max_data_age_in_periods; rounded up and kept
\* within 1 and max_buffer_len.
StatedCapacity(input, cfg, or_equal) ==
    LET period == cfg.resampling_period_s
        bigger == input.num * period.den > period.num * input.den
        equal == input.num * period.den = period.num * input.den
        len == IF bigger \/ (or_equal /\ equal)
               THEN Ceil(input.num * cfg.max_data_age_in_periods, input.den)
               ELSE Ceil(period.num * input.den * cfg.max_data_age_in_periods,
                         period.den * input.num)
    IN  Min2(cfg.max_buffer_len, Max2(1, len))

\* C37: the capacity after _update_buffer_len is the input period times
\* max_data_age_in_periods for an input period that is not under the
\* resampling period, else the resampling period over the input period
\* times max_data_age_in_periods, rounded up and within 1 and
\* max_buffer_len; the buffer keeps its most recent samples, as many as the
\* new capacity has room for, in their order.
C37_CapacityFromEqualPeriod ==
    [][ResizeStep =>
        LET old == resamplers[1]
            new == resamplers'[1]
        IN  /\ new.maxlen = StatedCapacity(old.sampling_period_s, config, TRUE)
            /\ new.buffer = LastItems(old.buffer, Min2(Len(old.buffer), new.maxlen))]_vars

\* C37, as the code has it: the input period times max_data_age_in_periods
\* is the capacity only for an input period strictly over the resampling
\* period; for equal periods the capacity is max_data_age_in_periods
\* rounded up.  The capacity is within 1 and max_buffer_len in every state.
C37_CapacityFromBiggerPeriod ==
    /\ [](\A i \in DOMAIN resamplers :
            /\ 1 <= resamplers[i].maxlen
            /\ resamplers[i].maxlen <= config.max_buffer_len
            /\ Len(resamplers[i].buffer) <= resamplers[i].maxlen)
    /\ [][ResizeStep =>
            LET old == resamplers[1]
                new == resamplers'[1]
            IN  /\ new.maxlen = StatedCapacity(old.sampling_period_s, config, FALSE)
                /\ new.buffer =
                    LastItems(old.buffer, Min2(Len(old.buffer), new.maxlen))]_vars

\* The input period was inferred equal to the resampling period of 2
\* seconds, with 3 periods of data age: the capacity is 3, not 6 or
\* max_buffer_len, and the two samples of the old buffer are kept.
C37_Witness ==
    /\ rpc = "resized"
    /\ nsamples = 0
    /\ config.resampling_period_s = [num |-> 2, den |-> 1]
    /\ resamplers[1].sampling_period_s = [num |-> 2, den |-> 1]
    /\ config.max_data_age_in_periods = 3
    /\ resamplers[1].maxlen = 3
    /\ Len(resamplers[1].buffer) = 2

\* C38: at the end of every tick, with or without add_timeseries and
\* remove_timeseries calls during the gather, no error but ResamplingError
\* leaves resample, and when helpers raised in the tick the exceptions of
\* the ResamplingError are those of exactly these helpers, each under the
\* source of the helper that raised it.
C38_TickEndsCorrectly ==
    [][(rpc = "gather" /\ rpc' # "gather") =>
            /\ raised'.type \in {"None", "ResamplingError"}
            /\ RaisedInTick # {} =>
                /\ raised'.type = "ResamplingError"
                /\ raised'.exceptions = RaisedInTick
            /\ RaisedInTick = {} => raised'.type = "None"]_vars

\* C39: once remove_timeseries deleted the helper of a source, the receive
\* task of that helper is not pending any more and has consumed no sample
\* of the source since, and every tick that starts later resamples
\* registered sources only, so that the sink of the deleted helper gets
\* nothing from it.
C39_RemovedHelperIsStopped ==
    /\ [](\A h \in removed : h.receiving_task # "running" /\ h.consumed = 0)
    /\ [][(rpc # "gather" /\ rpc' = "gather") =>
            \A i \in DOMAIN gathered' : gathered'[i].source \in Registered]_vars

====
